---- MODULE Spec2Model ----
(***************************************************************************)
(* Model of the server handlers of my-portfolio-site: the page_content,    *)
(* projects and blog_posts tables (db/schema) and the handlers that read   *)
(* and write them.  A table is the set of its rows; a query result is a    *)
(* sequence of rows; a handler's return value is kept in `response`.       *)
(* A nullable text column holds NULL or a string; a nullable timestamp is  *)
(* <<>> (null) or <<t>>.  An optional input field is a key that the input  *)
(* record has or has not (JavaScript's undefined).                         *)
(***************************************************************************)
EXTENDS Integers, Sequences, FiniteSets, TLC

\* ------------------------------------------------------------------ bounds
\* Clock readings are 0..MaxTime (milliseconds of new Date() / now()).
MaxTime == 1
\* Mutating API calls issued in one behaviour of the project and blog models.
MaxCalls == 3
\* Optional fields one update input supplies besides id.
MaxSupplied == 2
\* Rows of a table whose list queries are examined.
MaxRows == 2
\* Clients whose calls can overlap.
MaxClients == 2

NULL == "NULL"

VARIABLES
    pageContent,    \* rows of page_content
    projects,       \* rows of projects
    blogPosts,      \* rows of blog_posts
    nextId,         \* the serial sequences: table name -> next id
    now,            \* the clock read by new Date() and defaultNow()
    calls,          \* mutating calls issued so far
    response,       \* what the last handler call returned or threw
    inflight,       \* per client: the call it is inside, suspended at an await
    adminUsers,     \* rows of admin_users
    request         \* the last call made through the router, as it was sent

vars ==
    <<pageContent, projects, blogPosts, nextId, now, calls, response, inflight,
      adminUsers, request>>

\* A handler call and its outcome: the operation, its input, "ok" or the
\* error thrown, and the rows returned (<<>> for null or nothing, <<row>> for
\* one row, the list for a list query).
Resp(op, input, outcome, rows) ==
    [op |-> op, input |-> input, outcome |-> outcome, ret |-> rows]

\* Each client runs one call at a time; a call of several statements is
\* suspended at each await, where calls of other clients can run.
\* A call made through the router: the procedure and the input on the wire.
Request(op, raw) == [op |-> op, raw |-> raw]
NoRequest == Request("none", <<>>)

Clients == 1..MaxClients
Idle == [op |-> "idle"]

\* Clients are interchangeable: a new call is taken by the first idle one.
FirstIdle(c) == inflight[c] = Idle /\ \A d \in Clients : d < c => inflight[d] # Idle

\* process.env.NODE_ENV (with BUN_TEST) as a handler finds it: every handler
\* that has a demo-content fallback reads it at each call.
Envs == {"test", "production"}
IsTestEnv(env) == env = "test"

\* The ids a call may name: the ids of the rows that can exist when a call
\* is made (each of them also names no row in some state).
Ids == 1..(MaxCalls - 1)

\* All records with domain D whose field k is drawn from the set dom[k].
RECURSIVE RecordsOver(_, _)
RecordsOver(D, dom) ==
    IF D = {} THEN {<<>>}
    ELSE LET k == CHOOSE k \in D : TRUE
         IN  {[j \in DOMAIN r \cup {k} |-> IF j = k THEN v ELSE r[j]] :
                 r \in RecordsOver(D \ {k}, dom), v \in dom[k]}

\* The inputs with the required fields and at most MaxSupplied optional ones.
PartialInputs(required, optional, dom) ==
    UNION {RecordsOver(required \cup S, dom) :
              S \in {T \in SUBSET optional : Cardinality(T) <= MaxSupplied}}

\* The sequences that list the set S once each.
RECURSIVE Perms(_)
Perms(S) ==
    IF S = {} THEN {<<>>}
    ELSE UNION {{<<x>> \o p : p \in Perms(S \ {x})} : x \in S}

\* ORDER BY: the listings of S ascending by key; rows of equal key come in
\* whatever order the database produces.
OrderBy(S, key(_)) ==
    {p \in Perms(S) : \A i, j \in 1..Len(p) : i < j => key(p[i]) <= key(p[j])}

\* .set(data).where(...): the row with the columns of data overwritten.
ApplySet(row, data) ==
    [k \in DOMAIN row |-> IF k \in DOMAIN data THEN data[k] ELSE row[k]]

\* The update object a handler builds: updated_at, and every field of
\* `fields` that the input supplies (input.f !== undefined).
UpdateDataMut(input, fields, t) == [k \in DOMAIN input \cap fields |-> input[k]]
UpdateData(input, fields, t) ==
    [k \in (DOMAIN input \cap fields) \cup {"updated_at"} |->
        IF k = "updated_at" THEN t ELSE input[k]]

\* ------------------------------------------------------------ page content
PageTypes == {"home", "about"}

\* updatePageContentInputSchema: every field required, hero_image_url nullable.
UpdatePageContentInputs ==
    [page_type : PageTypes,
     hero_title : {"H1", "H2"},
     hero_text : {"X1", "X2"},
     hero_image_url : {NULL, "U1"},
     content_sections : {"S1", "S2"}]

\* db.select().from(pageContentTable).where(eq(page_type, pt))
SelectPageByType(rows, pt) == {r \in rows : r.page_type = pt}

\* page_type is .unique(): an insert of a second row of a page type is refused.
PageInsertAllowedMut(rows, row) == TRUE
PageInsertAllowed(rows, row) == \A r \in rows : r.page_type # row.page_type

\* db.update(pageContentTable).set({...4 fields, updated_at}).where(eq(page_type))
PageSetMut(r, input, t) ==
    [r EXCEPT !.hero_title = input.hero_title,
              !.hero_text = input.hero_text,
              !.hero_image_url = input.hero_image_url,
              !.content_sections = input.content_sections,
              !.created_at = t,
              !.updated_at = t]
PageSet(r, input, t) ==
    [r EXCEPT !.hero_title = input.hero_title,
              !.hero_text = input.hero_text,
              !.hero_image_url = input.hero_image_url,
              !.content_sections = input.content_sections,
              !.updated_at = t]

PageUpdateRows(rows, input, t) ==
    {IF r.page_type = input.page_type THEN PageSet(r, input, t) ELSE r : r \in rows}

\* db.insert(pageContentTable).values({page_type, ...4 fields, created_at, updated_at})
PageNewRow(id, input, t) ==
    [id |-> id,
     page_type |-> input.page_type,
     hero_title |-> input.hero_title,
     hero_text |-> input.hero_text,
     hero_image_url |-> input.hero_image_url,
     content_sections |-> input.content_sections,
     created_at |-> t,
     updated_at |-> t]

\* The existence check of updatePageContent: existingContent.length > 0.
PageExistsMut(rows, pt) == FALSE
PageExists(rows, pt) == SelectPageByType(rows, pt) # {}

\* updatePageContent, run to completion with no other call in between.
updatePageContent(input) ==
    LET t == now
        existing == PageExists(pageContent, input.page_type)
        row == PageNewRow(nextId.page_content, input, t)
    IN  /\ IF existing
           THEN /\ pageContent' = PageUpdateRows(pageContent, input, t)
                /\ response' = Resp("updatePageContent", input, "ok",
                       <<CHOOSE r \in SelectPageByType(pageContent', input.page_type) : TRUE>>)
                /\ UNCHANGED nextId
           ELSE /\ nextId' = [nextId EXCEPT !.page_content = @ + 1]
                /\ IF PageInsertAllowed(pageContent, row)
                   THEN /\ pageContent' = pageContent \cup {row}
                        /\ response' = Resp("updatePageContent", input, "ok", <<row>>)
                   ELSE /\ pageContent' = pageContent
                        /\ response' = Resp("updatePageContent", input, "unique_violation", <<>>)
        /\ UNCHANGED <<inflight, adminUsers, projects, blogPosts, now, calls>>

UpdatePageContent ==
    /\ \E input \in UpdatePageContentInputs : updatePageContent(input)
    /\ UNCHANGED request

\* getDefaultPageContent: generated content with id 0, stamped now.
getDefaultPageContent(pt, t) ==
    [id |-> 0,
     page_type |-> pt,
     hero_title |-> IF pt = "home" THEN "Welcome to Our Amazing Platform"
                                   ELSE "About Our Company",
     hero_text |-> IF pt = "home" THEN "default home hero text"
                                  ELSE "default about hero text",
     hero_image_url |-> NULL,
     content_sections |-> IF pt = "home" THEN "default home sections"
                                         ELSE "default about sections",
     created_at |-> t,
     updated_at |-> t]

\* getPageContent: the stored row; with none, null in the test environment and
\* the default content outside it.
getPageContent(pt, env) ==
    LET results == SelectPageByType(pageContent, pt)
    IN  /\ response' = Resp("getPageContent", [page_type |-> pt, env |-> env], "ok",
                IF results = {}
                THEN IF IsTestEnv(env) THEN <<>> ELSE <<getDefaultPageContent(pt, now)>>
                ELSE <<CHOOSE r \in results : TRUE>>)
        /\ UNCHANGED <<inflight, adminUsers, pageContent, projects, blogPosts, nextId, now, calls>>

GetPageContent ==
    /\ \E pt \in PageTypes, env \in Envs : getPageContent(pt, env)
    /\ UNCHANGED request

\* The clock advances between calls, or does not: two calls can fall in the
\* same millisecond.
Tick ==
    /\ now < MaxTime
    /\ now' = now + 1
    /\ UNCHANGED <<inflight, adminUsers, pageContent, projects, blogPosts, nextId, calls, response,
                   request>>

\* ---------------------------------------------------------------- projects
ProjectFields == {"title", "description", "image_url", "order_index", "is_active"}

\* createProjectInputSchema: is_active is optional (default true).
CreateProjectInputs ==
    UNION {RecordsOver({"title", "description", "image_url", "order_index"} \cup S,
                       [title |-> {"T1"},
                        description |-> {NULL, "D1"},
                        image_url |-> {"I1"},
                        order_index |-> {0, 1, 2},
                        is_active |-> BOOLEAN]) : S \in SUBSET {"is_active"}}

\* updateProjectInputSchema: id, and any of the five fields.
UpdateProjectInputs ==
    PartialInputs({"id"}, ProjectFields,
                  [id |-> Ids,
                   title |-> {"T2"},
                   description |-> {NULL, "D2"},
                   image_url |-> {NULL, "I2"},
                   order_index |-> {1},
                   is_active |-> BOOLEAN])

\* deleteInputSchema
DeleteInputs == [id : Ids]

\* An insert that stores every project as active.
ProjectNewRowMut(id, input, t) ==
    [id |-> id,
     title |-> input.title,
     description |-> input.description,
     image_url |-> input.image_url,
     order_index |-> input.order_index,
     is_active |-> TRUE,
     created_at |-> t,
     updated_at |-> t]

\* db.insert(projectsTable).values({...}): id from the serial, both
\* timestamps defaultNow(), is_active: input.is_active ?? true.
ProjectNewRow(id, input, t) ==
    [id |-> id,
     title |-> input.title,
     description |-> input.description,
     image_url |-> input.image_url,
     order_index |-> input.order_index,
     is_active |-> IF "is_active" \in DOMAIN input THEN input.is_active ELSE TRUE,
     created_at |-> t,
     updated_at |-> t]

createProject(input) ==
    LET row == ProjectNewRow(nextId.projects, input, now)
    IN  /\ calls < MaxCalls
        /\ calls' = calls + 1
        /\ nextId' = [nextId EXCEPT !.projects = @ + 1]
        /\ projects' = projects \cup {row}
        /\ response' = Resp("createProject", input, "ok", <<row>>)
        /\ UNCHANGED <<inflight, adminUsers, pageContent, blogPosts, now>>

CreateProject ==
    /\ calls < MaxCalls /\ \E input \in CreateProjectInputs : createProject(input)
    /\ UNCHANGED request

\* db.update(projectsTable).set(updateData).where(eq(id, input.id)).returning()
ProjectUpdateRowsMut(rows, input, t) ==
    {ApplySet(r, UpdateData(input, ProjectFields, t)) : r \in rows}
ProjectUpdateRows(rows, input, t) ==
    {IF r.id = input.id THEN ApplySet(r, UpdateData(input, ProjectFields, t)) ELSE r :
        r \in rows}

\* updateProject: one UPDATE ... RETURNING; "Project not found" when it
\* returned no row.
updateProject(input) ==
    LET result == {r \in ProjectUpdateRows(projects, input, now) : r.id = input.id}
    IN  /\ calls < MaxCalls
        /\ calls' = calls + 1
        /\ projects' = ProjectUpdateRows(projects, input, now)
        /\ response' = IF result = {}
                       THEN Resp("updateProject", input, "not_found", <<>>)
                       ELSE Resp("updateProject", input, "ok", <<CHOOSE r \in result : TRUE>>)
        /\ UNCHANGED <<inflight, adminUsers, pageContent, blogPosts, nextId, now>>

UpdateProject ==
    /\ calls < MaxCalls /\ \E input \in UpdateProjectInputs : updateProject(input)
    /\ UNCHANGED request

\* A deleteProject that skips the existence select.
deleteProjectMut(input) ==
    /\ calls < MaxCalls
    /\ calls' = calls + 1
    /\ projects' = {r \in projects : r.id # input.id}
    /\ response' = Resp("deleteProject", input, "ok",
           <<[success |-> TRUE, message |-> "Project deleted successfully"]>>)
    /\ UNCHANGED <<inflight, adminUsers, pageContent, blogPosts, nextId, now>>

\* deleteProject: select by id, then delete; a result object either way.
deleteProject(input) ==
    LET existingProject == {r \in projects : r.id = input.id}
    IN  /\ calls < MaxCalls
        /\ calls' = calls + 1
        /\ IF existingProject = {}
           THEN /\ projects' = projects
                /\ response' = Resp("deleteProject", input, "ok",
                       <<[success |-> FALSE, message |-> "Project not found"]>>)
           ELSE /\ projects' = {r \in projects : r.id # input.id}
                /\ response' = Resp("deleteProject", input, "ok",
                       <<[success |-> TRUE, message |-> "Project deleted successfully"]>>)
        /\ UNCHANGED <<inflight, adminUsers, pageContent, blogPosts, nextId, now>>

DeleteProject ==
    /\ calls < MaxCalls /\ \E input \in DeleteInputs : deleteProject(input)
    /\ UNCHANGED request

\* getDefaultProjects: three generated projects, stamped now.
getDefaultProjects(t) ==
    << [id |-> 1, title |-> "E-Commerce Platform", description |-> "default 1",
        image_url |-> NULL, order_index |-> 0, is_active |-> TRUE,
        created_at |-> t, updated_at |-> t],
       [id |-> 2, title |-> "Mobile App Development", description |-> "default 2",
        image_url |-> NULL, order_index |-> 1, is_active |-> TRUE,
        created_at |-> t, updated_at |-> t],
       [id |-> 3, title |-> "Corporate Website", description |-> "default 3",
        image_url |-> NULL, order_index |-> 2, is_active |-> TRUE,
        created_at |-> t, updated_at |-> t] >>

OrderIndexOfMut(r) == r.id
OrderIndexOf(r) == r.order_index

\* The list a projects query returns: the rows that pass, ORDER BY
\* order_index asc; when it is empty outside the test environment, the
\* default projects instead.
ProjectList(results, env, t) ==
    IF results = <<>> /\ ~IsTestEnv(env) THEN getDefaultProjects(t) ELSE results

\* getProjects: where is_active = true.
getProjects(env) ==
    /\ \E results \in OrderBy({r \in projects : r.is_active}, OrderIndexOf) :
          response' = Resp("getProjects", [env |-> env], "ok",
                           ProjectList(results, env, now))
    /\ UNCHANGED <<inflight, adminUsers, pageContent, projects, blogPosts, nextId, now, calls>>

GetProjects ==
    /\ \E env \in Envs : getProjects(env)
    /\ UNCHANGED request

\* getAllProjects: every row.
getAllProjects(env) ==
    /\ \E results \in OrderBy(projects, OrderIndexOf) :
          response' = Resp("getAllProjects", [env |-> env], "ok",
                           ProjectList(results, env, now))
    /\ UNCHANGED <<inflight, adminUsers, pageContent, projects, blogPosts, nextId, now, calls>>

GetAllProjects ==
    /\ \E env \in Envs : getAllProjects(env)
    /\ UNCHANGED request

\* -------------------------------------------------------------- blog posts
BlogFields ==
    {"title", "slug", "excerpt", "content", "image_url", "is_published", "published_at"}

\* createBlogPostInputSchema: is_published is optional (default false).
CreateBlogPostInputs ==
    UNION {RecordsOver({"title", "slug", "excerpt", "content", "image_url",
                        "published_at"} \cup S,
                       [title |-> {"T1"},
                        slug |-> {"s1", "s2"},
                        excerpt |-> {"E1"},
                        content |-> {"C1"},
                        image_url |-> {"I1"},
                        is_published |-> BOOLEAN,
                        published_at |-> {<<>>, <<1>>}]) : S \in SUBSET {"is_published"}}

\* updateBlogPostInputSchema: id, and any of the seven fields.
UpdateBlogPostInputs ==
    PartialInputs({"id"}, BlogFields,
                  [id |-> Ids,
                   title |-> {"T2"},
                   slug |-> {"s1", "s2"},
                   excerpt |-> {NULL, "E2"},
                   content |-> {"C2"},
                   image_url |-> {NULL, "I2"},
                   is_published |-> BOOLEAN,
                   published_at |-> {<<>>, <<2>>}])

\* db.insert(blogPostsTable).values({...}): id from the serial, both
\* timestamps defaultNow(), is_published default false.
BlogNewRow(id, input, t) ==
    [id |-> id,
     title |-> input.title,
     slug |-> input.slug,
     excerpt |-> input.excerpt,
     content |-> input.content,
     image_url |-> input.image_url,
     is_published |-> IF "is_published" \in DOMAIN input THEN input.is_published ELSE FALSE,
     published_at |-> input.published_at,
     created_at |-> t,
     updated_at |-> t]

\* slug is .unique(): the table a statement would leave is refused when two
\* of its rows share a slug.
SlugsUniqueMut(rows) == TRUE
SlugsUnique(rows) == \A r1, r2 \in rows : r1.slug = r2.slug => r1.id = r2.id

\* A createBlogPost that persists nothing and hands back a row with id 0.
createBlogPostMut(input) ==
    /\ calls < MaxCalls
    /\ calls' = calls + 1
    /\ response' = Resp("createBlogPost", input, "ok", <<BlogNewRow(0, input, now)>>)
    /\ UNCHANGED <<inflight, adminUsers, pageContent, projects, blogPosts, nextId, now>>

\* createBlogPost: one INSERT ... RETURNING; the constraint's error propagates.
\* The serial advances whether or not the insert succeeds.
createBlogPost(input) ==
    LET row == BlogNewRow(nextId.blog_posts, input, now)
    IN  /\ calls < MaxCalls
        /\ calls' = calls + 1
        /\ nextId' = [nextId EXCEPT !.blog_posts = @ + 1]
        /\ IF SlugsUnique(blogPosts \cup {row})
           THEN /\ blogPosts' = blogPosts \cup {row}
                /\ response' = Resp("createBlogPost", input, "ok", <<row>>)
           ELSE /\ blogPosts' = blogPosts
                /\ response' = Resp("createBlogPost", input, "unique_violation", <<>>)
        /\ UNCHANGED <<inflight, adminUsers, pageContent, projects, now>>

CreateBlogPost ==
    /\ calls < MaxCalls /\ \E input \in CreateBlogPostInputs : createBlogPost(input)
    /\ UNCHANGED request

\* existingPost: select where id = input.id
BlogExistsMut(rows, id) == TRUE
BlogExists(rows, id) == \E r \in rows : r.id = id

\* conflictingPost: if (input.slug), select where slug = input.slug and
\* id <> input.id; true when that finds a row.
BlogSlugConflictMut(rows, input) ==
    /\ "slug" \in DOMAIN input
    /\ \E r \in rows : r.slug = input.slug
BlogSlugConflict(rows, input) ==
    /\ "slug" \in DOMAIN input
    /\ \E r \in rows : r.slug = input.slug /\ r.id # input.id

\* db.update(blogPostsTable).set(updateData).where(eq(id, input.id)).returning()
BlogUpdateRows(rows, input, t) ==
    {IF r.id = input.id THEN ApplySet(r, UpdateData(input, BlogFields, t)) ELSE r :
        r \in rows}

\* What the UPDATE statement of updateBlogPost does to the table and returns.
BlogUpdateStatement(input) ==
    LET after == BlogUpdateRows(blogPosts, input, now)
        result == {r \in after : r.id = input.id}
    IN  IF SlugsUnique(after)
        THEN /\ blogPosts' = after
             /\ response' = Resp("updateBlogPost", input, "ok",
                    IF result = {} THEN <<>> ELSE <<CHOOSE r \in result : TRUE>>)
        ELSE /\ blogPosts' = blogPosts
             /\ response' = Resp("updateBlogPost", input, "unique_violation", <<>>)

\* updateBlogPost, run to completion with no other call in between.
updateBlogPost(input) ==
    /\ calls < MaxCalls
    /\ calls' = calls + 1
    /\ IF ~BlogExists(blogPosts, input.id)
       THEN /\ blogPosts' = blogPosts
            /\ response' = Resp("updateBlogPost", input, "not_found", <<>>)
       ELSE IF BlogSlugConflict(blogPosts, input)
       THEN /\ blogPosts' = blogPosts
            /\ response' = Resp("updateBlogPost", input, "already_exists", <<>>)
       ELSE BlogUpdateStatement(input)
    /\ UNCHANGED <<inflight, adminUsers, pageContent, projects, nextId, now>>

UpdateBlogPost ==
    /\ calls < MaxCalls /\ \E input \in UpdateBlogPostInputs : updateBlogPost(input)
    /\ UNCHANGED request

\* deleteBlogPost: select by id, then delete; a result object either way.
deleteBlogPost(input) ==
    /\ calls < MaxCalls
    /\ calls' = calls + 1
    /\ IF ~BlogExists(blogPosts, input.id)
       THEN /\ blogPosts' = blogPosts
            /\ response' = Resp("deleteBlogPost", input, "ok",
                   <<[success |-> FALSE, message |-> "Blog post not found"]>>)
       ELSE /\ blogPosts' = {r \in blogPosts : r.id # input.id}
            /\ response' = Resp("deleteBlogPost", input, "ok",
                   <<[success |-> TRUE, message |-> "Blog post deleted successfully"]>>)
    /\ UNCHANGED <<inflight, adminUsers, pageContent, projects, nextId, now>>

DeleteBlogPost ==
    /\ calls < MaxCalls /\ \E input \in DeleteInputs : deleteBlogPost(input)
    /\ UNCHANGED request

\* ---- the blog mutations statement by statement, for overlapping calls
\* A call suspended before the statement named pc.
Suspended(op, input, pc) == [op |-> op, input |-> input, pc |-> pc]

\* updateBlogPost, first statement: select the post by id; throw when it is
\* missing.
updateBlogPostBegin(c, input) ==
    /\ FirstIdle(c)
    /\ calls < MaxCalls
    /\ calls' = calls + 1
    /\ IF ~BlogExists(blogPosts, input.id)
       THEN /\ response' = Resp("updateBlogPost", input, "not_found", <<>>)
            /\ UNCHANGED inflight
       ELSE /\ inflight' = [inflight EXCEPT ![c] =
                   Suspended("updateBlogPost", input,
                             IF "slug" \in DOMAIN input THEN "conflict" ELSE "update")]
            /\ UNCHANGED response
    /\ UNCHANGED <<adminUsers, pageContent, projects, blogPosts, nextId, now>>

\* updateBlogPost, second statement (only with a slug): select a post with
\* that slug and another id; throw when there is one.
updateBlogPostConflict(c) ==
    /\ inflight[c].op = "updateBlogPost"
    /\ inflight[c].pc = "conflict"
    /\ IF BlogSlugConflict(blogPosts, inflight[c].input)
       THEN /\ response' = Resp("updateBlogPost", inflight[c].input, "already_exists", <<>>)
            /\ inflight' = [inflight EXCEPT ![c] = Idle]
       ELSE /\ inflight' = [inflight EXCEPT ![c].pc = "update"]
            /\ UNCHANGED response
    /\ UNCHANGED <<adminUsers, pageContent, projects, blogPosts, nextId, now, calls>>

\* updateBlogPost, last statement: the UPDATE, and return result[0].
updateBlogPostUpdate(c) ==
    /\ inflight[c].op = "updateBlogPost"
    /\ inflight[c].pc = "update"
    /\ BlogUpdateStatement(inflight[c].input)
    /\ inflight' = [inflight EXCEPT ![c] = Idle]
    /\ UNCHANGED <<adminUsers, pageContent, projects, nextId, now, calls>>

UpdateBlogPostStep ==
    /\ \E c \in Clients :
           \/ /\ calls < MaxCalls /\ FirstIdle(c)
              /\ \E input \in UpdateBlogPostInputs : updateBlogPostBegin(c, input)
           \/ updateBlogPostConflict(c)
           \/ updateBlogPostUpdate(c)
    /\ UNCHANGED request

\* deleteBlogPost, first statement: select the post by id.
deleteBlogPostBegin(c, input) ==
    /\ FirstIdle(c)
    /\ calls < MaxCalls
    /\ calls' = calls + 1
    /\ IF ~BlogExists(blogPosts, input.id)
       THEN /\ response' = Resp("deleteBlogPost", input, "ok",
                   <<[success |-> FALSE, message |-> "Blog post not found"]>>)
            /\ UNCHANGED inflight
       ELSE /\ inflight' = [inflight EXCEPT ![c] =
                   Suspended("deleteBlogPost", input, "delete")]
            /\ UNCHANGED response
    /\ UNCHANGED <<adminUsers, pageContent, projects, blogPosts, nextId, now>>

\* deleteBlogPost, second statement: the DELETE, then the success result.
deleteBlogPostDelete(c) ==
    /\ inflight[c].op = "deleteBlogPost"
    /\ inflight[c].pc = "delete"
    /\ blogPosts' = {r \in blogPosts : r.id # inflight[c].input.id}
    /\ response' = Resp("deleteBlogPost", inflight[c].input, "ok",
           <<[success |-> TRUE, message |-> "Blog post deleted successfully"]>>)
    /\ inflight' = [inflight EXCEPT ![c] = Idle]
    /\ UNCHANGED <<adminUsers, pageContent, projects, nextId, now, calls>>

DeleteBlogPostStep ==
    /\ \E c \in Clients :
           \/ /\ calls < MaxCalls /\ FirstIdle(c)
              /\ \E input \in DeleteInputs : deleteBlogPostBegin(c, input)
           \/ deleteBlogPostDelete(c)
    /\ UNCHANGED request

\* updatePageContent, up to its first await: now = new Date(), then the
\* select of the rows of the page type; the call goes on to the UPDATE when
\* it found one and to the INSERT when it found none.
updatePageContentBegin(c, input) ==
    /\ FirstIdle(c)
    /\ calls < MaxCalls
    /\ calls' = calls + 1
    /\ inflight' = [inflight EXCEPT ![c] =
           [op |-> "updatePageContent", input |-> input, t |-> now,
            pc |-> IF PageExists(pageContent, input.page_type)
                   THEN "update" ELSE "insert"]]
    /\ UNCHANGED <<adminUsers, pageContent, projects, blogPosts, nextId, now, response>>

\* updatePageContent, its write: the UPDATE ... RETURNING, or the INSERT ...
\* RETURNING, which the unique constraint on page_type can refuse; the
\* constraint's error is rethrown.
updatePageContentWrite(c) ==
    LET input == inflight[c].input
        t == inflight[c].t
        row == PageNewRow(nextId.page_content, input, t)
    IN  /\ inflight[c].op = "updatePageContent"
        /\ IF inflight[c].pc = "update"
           THEN /\ pageContent' = PageUpdateRows(pageContent, input, t)
                /\ response' = Resp("updatePageContent", input, "ok",
                       <<CHOOSE r \in SelectPageByType(pageContent', input.page_type) : TRUE>>)
                /\ UNCHANGED nextId
           ELSE /\ nextId' = [nextId EXCEPT !.page_content = @ + 1]
                /\ IF PageInsertAllowed(pageContent, row)
                   THEN /\ pageContent' = pageContent \cup {row}
                        /\ response' = Resp("updatePageContent", input, "ok", <<row>>)
                   ELSE /\ pageContent' = pageContent
                        /\ response' = Resp("updatePageContent", input, "unique_violation", <<>>)
        /\ inflight' = [inflight EXCEPT ![c] = Idle]
        /\ UNCHANGED <<adminUsers, projects, blogPosts, now, calls>>

\* The inputs of overlapping calls: either page type, two hero titles.
OverlappingPageInputs ==
    {input \in UpdatePageContentInputs :
        /\ input.hero_text = "X1"
        /\ input.hero_image_url = NULL
        /\ input.content_sections = "S1"}

UpdatePageContentStep ==
    /\ \E c \in Clients :
           \/ /\ calls < MaxCalls /\ FirstIdle(c)
              /\ \E input \in OverlappingPageInputs : updatePageContentBegin(c, input)
           \/ updatePageContentWrite(c)
    /\ UNCHANGED request

\* paginationInputSchema: page >= 1, limit in 1..100 (integers).
PaginationInputs == [page : 1..2, limit : 1..2]

GetBlogPostBySlugInputs ==
    [slug : {"s1", "s2", "getting-started-with-modern-web-development"}]

\* 24 * 60 * 60 * 1000 milliseconds
Day == 86400000

\* getDefaultBlogPosts(): three posts dated one, two and three days before
\* the call (content abridged to its heading).
getDefaultBlogPosts(t) ==
    LET publishedDate == t - Day
        Post(id, title, slug, excerpt, content, date) ==
            [id |-> id, title |-> title, slug |-> slug, excerpt |-> excerpt,
             content |-> content, image_url |-> NULL, is_published |-> TRUE,
             published_at |-> <<date>>, created_at |-> date, updated_at |-> date]
    IN  << Post(1, "Getting Started with Modern Web Development",
                "getting-started-with-modern-web-development",
                "Learn the fundamentals of modern web development",
                "# Getting Started with Modern Web Development",
                publishedDate),
           Post(2, "Building Responsive User Interfaces",
                "building-responsive-user-interfaces",
                "Discover how to create beautiful, responsive user interfaces",
                "# Building Responsive User Interfaces",
                publishedDate - Day),
           Post(3, "API Design and Backend Architecture",
                "api-design-and-backend-architecture",
                "Learn how to design robust APIs and backend architectures",
                "# API Design and Backend Architecture",
                publishedDate - 2 * Day) >>

\* and(eq(is_published, true), isNotNull(published_at))
IsPublic(r) == r.is_published /\ r.published_at # <<>>

\* desc(published_at), desc(created_at) as ascending sort keys
DescPublishedAt(r) == 0 - r.published_at[1]
DescCreatedAt(r) == 0 - r.created_at

\* Math.ceil(total / limit)
Ceil(total, limit) == (total + limit - 1) \div limit

\* .limit(limit).offset(offset) of an ordered result; Array.slice(0, limit)
LimitOffset(ordered, limit, offset) ==
    SubSeq(ordered, offset + 1,
           IF offset + limit < Len(ordered) THEN offset + limit ELSE Len(ordered))

\* The PaginatedResponse built from the page query's and the count query's
\* results, with the default posts on an empty first page outside tests.
PaginatedResponse(results, total, input, env, t) ==
    IF results = <<>> /\ input.page = 1 /\ ~IsTestEnv(env)
    THEN LET defaultPosts == getDefaultBlogPosts(t)
         IN  [data |-> LimitOffset(defaultPosts, input.limit, 0),
              pagination |-> [page |-> 1,
                              limit |-> input.limit,
                              total |-> Len(defaultPosts),
                              totalPages |-> Ceil(Len(defaultPosts), input.limit),
                              hasNext |-> Len(defaultPosts) > input.limit,
                              hasPrev |-> FALSE]]
    ELSE [data |-> results,
          pagination |-> [page |-> input.page,
                          limit |-> input.limit,
                          total |-> total,
                          totalPages |-> Ceil(total, input.limit),
                          hasNext |-> input.page < Ceil(total, input.limit),
                          hasPrev |-> input.page > 1]]

\* getBlogPosts: the page query and the count query read the same table state.
getBlogPosts(input, env) ==
    LET matching == {r \in blogPosts : IsPublic(r)}
        offset == (input.page - 1) * input.limit
    IN  /\ \E ordered \in OrderBy(matching, DescPublishedAt) :
               response' = Resp("getBlogPosts",
                                [page |-> input.page, limit |-> input.limit, env |-> env],
                                "ok",
                                <<PaginatedResponse(
                                     LimitOffset(ordered, input.limit, offset),
                                     Cardinality(matching), input, env, now)>>)
        /\ UNCHANGED <<inflight, adminUsers, pageContent, projects, blogPosts, nextId, now, calls>>

GetBlogPosts ==
    /\ \E input \in PaginationInputs, env \in Envs : getBlogPosts(input, env)
    /\ UNCHANGED request

getAllBlogPosts(input, env) ==
    LET offset == (input.page - 1) * input.limit
    IN  /\ \E ordered \in OrderBy(blogPosts, DescCreatedAt) :
               response' = Resp("getAllBlogPosts",
                                [page |-> input.page, limit |-> input.limit, env |-> env],
                                "ok",
                                <<PaginatedResponse(
                                     LimitOffset(ordered, input.limit, offset),
                                     Cardinality(blogPosts), input, env, now)>>)
        /\ UNCHANGED <<inflight, adminUsers, pageContent, projects, blogPosts, nextId, now, calls>>

GetAllBlogPosts ==
    /\ \E input \in PaginationInputs, env \in Envs : getAllBlogPosts(input, env)
    /\ UNCHANGED request

\* The rows a blog list call selects from: the published posts with a
\* publication date for getBlogPosts, every post for getAllBlogPosts.
BlogListMatching(op) ==
    IF op = "getBlogPosts" THEN {r \in blogPosts : IsPublic(r)} ELSE blogPosts

\* The results the page query of a blog list call can return in the current
\* table state (rows with equal sort keys come in any order).
BlogPageQuery(op, input) ==
    LET ordered == IF op = "getBlogPosts"
                   THEN OrderBy(BlogListMatching(op), DescPublishedAt)
                   ELSE OrderBy(BlogListMatching(op), DescCreatedAt)
    IN  {LimitOffset(o, input.limit, (input.page - 1) * input.limit) : o \in ordered}

\* getBlogPosts / getAllBlogPosts, Promise.all([query.execute(),
\* totalQuery.execute()]): two statements outside any transaction, which the
\* database runs in either order.  This is the one that runs first; the call
\* then waits for the other (pc names it).
listBlogPostsBegin(c, op, input, env) ==
    /\ FirstIdle(c)
    /\ \/ \E results \in BlogPageQuery(op, input) :
              inflight' = [inflight EXCEPT ![c] =
                  [op |-> op, input |-> input, env |-> env, pc |-> "count",
                   results |-> results, total |-> 0]]
       \/ inflight' = [inflight EXCEPT ![c] =
              [op |-> op, input |-> input, env |-> env, pc |-> "page",
               results |-> <<>>, total |-> Cardinality(BlogListMatching(op))]]
    /\ UNCHANGED <<adminUsers, pageContent, projects, blogPosts, nextId, now, calls, response>>

\* The statement that runs second, and the response built from both results.
listBlogPostsEnd(c) ==
    LET call == inflight[c]
        Return(results, total) ==
            response' = Resp(call.op,
                             [page |-> call.input.page, limit |-> call.input.limit,
                              env |-> call.env],
                             "ok",
                             <<PaginatedResponse(results, total, call.input, call.env, now)>>)
    IN  /\ call.op \in {"getBlogPosts", "getAllBlogPosts"}
        /\ IF call.pc = "count"
           THEN Return(call.results, Cardinality(BlogListMatching(call.op)))
           ELSE \E results \in BlogPageQuery(call.op, call.input) :
                    Return(results, call.total)
        /\ inflight' = [inflight EXCEPT ![c] = Idle]
        /\ UNCHANGED <<adminUsers, pageContent, projects, blogPosts, nextId, now, calls>>

\* One list call at a time is in flight: list calls write nothing, so they
\* do nothing to one another.
ListBlogPostsStep ==
    /\ \E c \in Clients :
           \/ /\ FirstIdle(c) /\ \A d \in Clients : inflight[d] = Idle
              /\ \E op \in {"getBlogPosts", "getAllBlogPosts"},
                    input \in PaginationInputs, env \in Envs :
                     listBlogPostsBegin(c, op, input, env)
           \/ listBlogPostsEnd(c)
    /\ UNCHANGED request

\* defaultPosts.find(post => post.slug === input.slug) || null
FindDefaultPost(slug, t) ==
    LET defaultPosts == getDefaultBlogPosts(t)
        hits == {i \in 1..Len(defaultPosts) : defaultPosts[i].slug = slug}
    IN  IF hits = {} THEN <<>>
        ELSE <<defaultPosts[CHOOSE i \in hits : \A j \in hits : i <= j]>>

\* getBlogPostBySlug: the public row with the slug (limit 1); with none, null
\* in tests and otherwise the default post of that slug or null.  ret is <<>>
\* for null.
getBlogPostBySlug(input, env) ==
    LET results == {r \in blogPosts : r.slug = input.slug /\ IsPublic(r)}
    IN  /\ IF results = {}
           THEN response' = Resp("getBlogPostBySlug",
                                 [slug |-> input.slug, env |-> env], "ok",
                                 IF IsTestEnv(env) THEN <<>>
                                 ELSE FindDefaultPost(input.slug, now))
           ELSE \E blogPost \in results :
                    response' = Resp("getBlogPostBySlug",
                                     [slug |-> input.slug, env |-> env], "ok",
                                     <<blogPost>>)
        /\ UNCHANGED <<inflight, adminUsers, pageContent, projects, blogPosts, nextId, now, calls>>

GetBlogPostBySlug ==
    /\ \E input \in GetBlogPostBySlugInputs, env \in Envs : getBlogPostBySlug(input, env)
    /\ UNCHANGED request

\* ------------------------------------------------------------- admin login
\* Bun.password.hash(password): a salted hash; the salt is drawn at hashing.
Salts == {"salt1", "salt2"}
PasswordHash(password, salt) == <<"argon2id", salt, password>>

\* seedDatabase: the default admin, inserted at startup into an empty
\* admin_users table.
SeededAdmins ==
    {[id |-> 1, username |-> "admin",
      password_hash |-> PasswordHash("password", "salt1"),
      created_at |-> 0, updated_at |-> 0]}

\* adminLoginInputSchema values as the handler receives them (the handler's
\* tests also pass it empty strings).
AdminLoginInputs ==
    [username : {"admin", "admin1", "nobody", ""},
     password : {"password", "password1", ""}]

\* Verifying a password against a stored salted hash: hash it with the salt
\* the stored hash carries and compare.
VerifyPasswordMut(password, hash) == hash = PasswordHash(password, "salt1")
VerifyPassword(password, hash) == hash = PasswordHash(password, hash[2])

\* The token: base64 of the JSON serialisation of the payload, and what
\* decoding it (Buffer.from(token, 'base64'), JSON.parse) gives back.
EncodeToken(payload) ==
    <<"base64", "json", payload.userId, payload.username, payload.iat, payload.exp>>
DecodeToken(token) ==
    [userId |-> token[3], username |-> token[4], iat |-> token[5], exp |-> token[6]]

\* The payload of a login at time t: the user's id and username, issued-at,
\* and expiry 24 hours later.
TokenPayload(user, t) ==
    [userId |-> user.id, username |-> user.username, iat |-> t, exp |-> t + Day]

\* The failure results: one generic result for every cause.
InvalidCredentials == [success |-> FALSE, message |-> "Invalid credentials"]
UnknownUserResultMut == [success |-> FALSE, message |-> "User not found"]
UnknownUserResult == InvalidCredentials

\* adminLogin: look the user up by exact username; verify the password
\* against the stored hash; return the token on success and the generic
\* failure result otherwise.  It never throws and writes nothing.
adminLogin(input) ==
    LET users == {u \in adminUsers : u.username = input.username}
    IN  /\ IF users = {}
           THEN response' = Resp("adminLogin", input, "ok", <<UnknownUserResult>>)
           ELSE \E user \in users :
                    response' = Resp("adminLogin", input, "ok",
                        IF VerifyPassword(input.password, user.password_hash)
                        THEN <<[success |-> TRUE,
                                token |-> EncodeToken(TokenPayload(user, now)),
                                message |-> "Login successful"]>>
                        ELSE <<InvalidCredentials>>)
        /\ UNCHANGED <<inflight, adminUsers, pageContent, projects, blogPosts, nextId,
                       now, calls>>

AdminLogin ==
    /\ \E input \in AdminLoginInputs : adminLogin(input)
    /\ UNCHANGED request

\* ------------------------------------------------------------------ startup
\* The default page content seedDatabase inserts (texts abridged to their
\* headings), home first.
SeededPages(id, t) ==
    {[id |-> id, page_type |-> "home",
      hero_title |-> "Welcome to Our Amazing Platform",
      hero_text |-> "seeded home hero text", hero_image_url |-> NULL,
      content_sections |-> "seeded home sections",
      created_at |-> t, updated_at |-> t],
     [id |-> id + 1, page_type |-> "about",
      hero_title |-> "About Our Company",
      hero_text |-> "seeded about hero text", hero_image_url |-> NULL,
      content_sections |-> "seeded about sections",
      created_at |-> t, updated_at |-> t]}

\* The default admin: username admin, the hash of 'password' under a fresh
\* salt.  An empty admin_users table has never held a row (nothing deletes
\* one), so the serial gives id 1.
DefaultAdmin(salt, t) ==
    [id |-> 1, username |-> "admin", password_hash |-> PasswordHash("password", salt),
     created_at |-> t, updated_at |-> t]

\* seedDatabase, run by start() before the server listens: the default admin
\* when admin_users is empty, the default pages when page_content is empty.
seedDatabaseMut(salt) ==
    /\ adminUsers' = {u \in adminUsers : u.username # "admin"}
                         \cup {DefaultAdmin(salt, now)}
    /\ UNCHANGED <<pageContent, nextId>>
    /\ response' = Resp("seedDatabase", <<>>, "ok", <<>>)
    /\ UNCHANGED <<inflight, projects, blogPosts, now, calls, request>>
seedDatabase(salt) ==
    /\ adminUsers' = IF adminUsers = {} THEN {DefaultAdmin(salt, now)} ELSE adminUsers
    /\ IF pageContent = {}
       THEN /\ pageContent' = SeededPages(nextId.page_content, now)
            /\ nextId' = [nextId EXCEPT !.page_content = @ + 2]
       ELSE UNCHANGED <<pageContent, nextId>>
    /\ response' = Resp("seedDatabase", <<>>, "ok", <<>>)
    /\ UNCHANGED <<inflight, projects, blogPosts, now, calls, request>>

SeedDatabase == \E salt \in Salts : seedDatabase(salt)

\* ---------------------------------------------------- procedures (tRPC)
\* A JSON number as the wire carries it: numerator over a positive
\* denominator; Number.isInteger and the number's integer value.
Number(n, d) == <<n, d>>
IsInteger(x) == x[1] % x[2] = 0
IntegerValue(x) == x[1] \div x[2]

\* One field of a z.object: its check, whether it is .optional(), and its
\* .default(v) as <<v>> (<<>> for none).
Field(check, optional, default) ==
    [check |-> check, optional |-> optional, default |-> default]

adminLoginInputSchema ==
    [username |-> Field("string.min(1)", FALSE, <<>>),
     password |-> Field("string.min(1)", FALSE, <<>>)]

updatePageContentInputSchema ==
    [page_type |-> Field("enum(home, about)", FALSE, <<>>),
     hero_title |-> Field("string.min(1)", FALSE, <<>>),
     hero_text |-> Field("string.min(1)", FALSE, <<>>),
     hero_image_url |-> Field("string.nullable", FALSE, <<>>),
     content_sections |-> Field("string.min(1)", FALSE, <<>>)]

createProjectInputSchemaMut ==
    [title |-> Field("string.min(1)", FALSE, <<>>),
     description |-> Field("string.nullable", FALSE, <<>>),
     image_url |-> Field("string.nullable", FALSE, <<>>),
     order_index |-> Field("number.int", FALSE, <<>>),
     is_active |-> Field("boolean", FALSE, <<TRUE>>)]
createProjectInputSchema ==
    [title |-> Field("string.min(1)", FALSE, <<>>),
     description |-> Field("string.nullable", FALSE, <<>>),
     image_url |-> Field("string.nullable", FALSE, <<>>),
     order_index |-> Field("number.int.nonnegative", FALSE, <<>>),
     is_active |-> Field("boolean", FALSE, <<TRUE>>)]

updateProjectInputSchema ==
    [id |-> Field("number", FALSE, <<>>),
     title |-> Field("string.min(1)", TRUE, <<>>),
     description |-> Field("string.nullable", TRUE, <<>>),
     image_url |-> Field("string.nullable", TRUE, <<>>),
     order_index |-> Field("number.int.nonnegative", TRUE, <<>>),
     is_active |-> Field("boolean", TRUE, <<>>)]

createBlogPostInputSchema ==
    [title |-> Field("string.min(1)", FALSE, <<>>),
     slug |-> Field("string.min(1)", FALSE, <<>>),
     excerpt |-> Field("string.nullable", FALSE, <<>>),
     content |-> Field("string.min(1)", FALSE, <<>>),
     image_url |-> Field("string.nullable", FALSE, <<>>),
     is_published |-> Field("boolean", FALSE, <<FALSE>>),
     published_at |-> Field("date.nullable", FALSE, <<>>)]

updateBlogPostInputSchema ==
    [id |-> Field("number", FALSE, <<>>),
     title |-> Field("string.min(1)", TRUE, <<>>),
     slug |-> Field("string.min(1)", TRUE, <<>>),
     excerpt |-> Field("string.nullable", TRUE, <<>>),
     content |-> Field("string.min(1)", TRUE, <<>>),
     image_url |-> Field("string.nullable", TRUE, <<>>),
     is_published |-> Field("boolean", TRUE, <<>>),
     published_at |-> Field("date.nullable", TRUE, <<>>)]

paginationInputSchemaMut ==
    [page |-> Field("number.int.min(1)", FALSE, <<1>>),
     limit |-> Field("number.int.min(1)", FALSE, <<10>>)]
paginationInputSchema ==
    [page |-> Field("number.int.min(1)", FALSE, <<1>>),
     limit |-> Field("number.int.min(1).max(100)", FALSE, <<10>>)]

getBlogPostBySlugInputSchema ==
    [slug |-> Field("string.min(1)", FALSE, <<>>)]

\* The checks, as zod applies them to a value of the field's type.
NumberChecks ==
    {"number", "number.int", "number.int.nonnegative", "number.int.min(1)",
     "number.int.min(1).max(100)"}

Passes(check, v) ==
    CASE check = "string.min(1)" -> v # ""
      [] check = "enum(home, about)" -> v \in {"home", "about"}
      [] check = "number.int" -> IsInteger(v)
      [] check = "number.int.nonnegative" -> IsInteger(v) /\ v[1] >= 0
      [] check = "number.int.min(1)" -> IsInteger(v) /\ v[1] >= v[2]
      [] check = "number.int.min(1).max(100)" ->
             IsInteger(v) /\ v[1] >= v[2] /\ v[1] <= 100 * v[2]
      [] OTHER -> TRUE

\* What the handler receives for a value that passed: an integer for a
\* number (the numbers that reach a handler here are integers).
Parsed(check, v) == IF check \in NumberChecks THEN IntegerValue(v) ELSE v

\* schema.safeParse(raw): every field present must pass its check, a missing
\* field must be optional or have a default; the data holds the fields
\* present and the defaults of the missing ones.
SafeParse(schema, raw) ==
    LET missing == DOMAIN schema \ DOMAIN raw
        supplied == DOMAIN schema \cap DOMAIN raw
        defaulted == {k \in missing : Len(schema[k].default) > 0}
    IN  IF /\ \A k \in supplied : Passes(schema[k].check, raw[k])
           /\ \A k \in missing \ defaulted : schema[k].optional
        THEN [success |-> TRUE,
              data |-> [k \in supplied \cup defaulted |->
                           IF k \in supplied THEN Parsed(schema[k].check, raw[k])
                           ELSE schema[k].default[1]]]
        ELSE [success |-> FALSE]

\* .input(schema) failing: the procedure answers BAD_REQUEST and its resolver
\* (the handler) is not called.
Rejected(op, raw) ==
    /\ response' = Resp(op, raw, "BAD_REQUEST", <<>>)
    /\ UNCHANGED <<inflight, adminUsers, pageContent, projects, blogPosts, nextId,
                   now, calls>>

\* The raw inputs of the calls: values that satisfy the schema and values
\* that violate it.
RawAdminLoginInputs == [username : {"admin", ""}, password : {"password", ""}]

RawUpdatePageContentInputs ==
    [page_type : {"home"}, hero_title : {"H1", ""}, hero_text : {"X1"},
     hero_image_url : {NULL}, content_sections : {"S1", ""}]

RawCreateProjectInputs ==
    [title : {"T1", ""}, description : {NULL}, image_url : {NULL},
     order_index : {Number(0, 1), Number(0 - 1, 1), Number(1, 2)}]

RawUpdateProjectInputs ==
    PartialInputs({"id"}, {"title", "order_index"},
                  [id |-> {Number(1, 1)},
                   title |-> {"T2", ""},
                   order_index |-> {Number(1, 1), Number(0 - 1, 1), Number(3, 2)}])

RawCreateBlogPostInputs ==
    [title : {"T1", ""}, slug : {"s1", ""}, excerpt : {NULL}, content : {"C1", ""},
     image_url : {NULL}, is_published : {TRUE}, published_at : {<<0>>}]

RawUpdateBlogPostInputs ==
    PartialInputs({"id"}, {"slug", "content"},
                  [id |-> {Number(1, 1)},
                   slug |-> {"s2", ""},
                   content |-> {"C2", ""}])

RawPaginationInputs ==
    PartialInputs({}, {"page", "limit"},
                  [page |-> {Number(0, 1), Number(1, 1)},
                   limit |-> {Number(0, 1), Number(1, 1), Number(101, 1)}])

RawGetBlogPostBySlugInputs == [slug : {"s1", ""}]

\* The procedures: .input(schema) and then the resolver.
adminLoginProcedure(raw) ==
    LET parsed == SafeParse(adminLoginInputSchema, raw)
    IN  /\ request' = Request("adminLogin", raw)
        /\ IF parsed.success THEN adminLogin(parsed.data)
           ELSE Rejected("adminLogin", raw)

updatePageContentProcedure(raw) ==
    LET parsed == SafeParse(updatePageContentInputSchema, raw)
    IN  /\ request' = Request("updatePageContent", raw)
        /\ IF parsed.success THEN updatePageContent(parsed.data)
           ELSE Rejected("updatePageContent", raw)

createProjectProcedure(raw) ==
    LET parsed == SafeParse(createProjectInputSchema, raw)
    IN  /\ request' = Request("createProject", raw)
        /\ IF parsed.success THEN createProject(parsed.data)
           ELSE Rejected("createProject", raw)

updateProjectProcedure(raw) ==
    LET parsed == SafeParse(updateProjectInputSchema, raw)
    IN  /\ request' = Request("updateProject", raw)
        /\ IF parsed.success THEN updateProject(parsed.data)
           ELSE Rejected("updateProject", raw)

createBlogPostProcedure(raw) ==
    LET parsed == SafeParse(createBlogPostInputSchema, raw)
    IN  /\ request' = Request("createBlogPost", raw)
        /\ IF parsed.success THEN createBlogPost(parsed.data)
           ELSE Rejected("createBlogPost", raw)

updateBlogPostProcedure(raw) ==
    LET parsed == SafeParse(updateBlogPostInputSchema, raw)
    IN  /\ request' = Request("updateBlogPost", raw)
        /\ IF parsed.success THEN updateBlogPost(parsed.data)
           ELSE Rejected("updateBlogPost", raw)

getBlogPostsProcedure(raw, env) ==
    LET parsed == SafeParse(paginationInputSchema, raw)
    IN  /\ request' = Request("getBlogPosts", raw)
        /\ IF parsed.success THEN getBlogPosts(parsed.data, env)
           ELSE Rejected("getBlogPosts", raw)

getAllBlogPostsProcedure(raw, env) ==
    LET parsed == SafeParse(paginationInputSchema, raw)
    IN  /\ request' = Request("getAllBlogPosts", raw)
        /\ IF parsed.success THEN getAllBlogPosts(parsed.data, env)
           ELSE Rejected("getAllBlogPosts", raw)

getBlogPostBySlugProcedure(raw, env) ==
    LET parsed == SafeParse(getBlogPostBySlugInputSchema, raw)
    IN  /\ request' = Request("getBlogPostBySlug", raw)
        /\ IF parsed.success THEN getBlogPostBySlug(parsed.data, env)
           ELSE Rejected("getBlogPostBySlug", raw)

AdminLoginProcedure == \E raw \in RawAdminLoginInputs : adminLoginProcedure(raw)
UpdatePageContentProcedure ==
    \E raw \in RawUpdatePageContentInputs : updatePageContentProcedure(raw)
CreateProjectProcedure == \E raw \in RawCreateProjectInputs : createProjectProcedure(raw)
UpdateProjectProcedure == \E raw \in RawUpdateProjectInputs : updateProjectProcedure(raw)
CreateBlogPostProcedure == \E raw \in RawCreateBlogPostInputs : createBlogPostProcedure(raw)
UpdateBlogPostProcedure == \E raw \in RawUpdateBlogPostInputs : updateBlogPostProcedure(raw)
GetBlogPostsProcedure ==
    \E raw \in RawPaginationInputs, env \in Envs : getBlogPostsProcedure(raw, env)
GetAllBlogPostsProcedure ==
    \E raw \in RawPaginationInputs, env \in Envs : getAllBlogPostsProcedure(raw, env)
GetBlogPostBySlugProcedure ==
    \E raw \in RawGetBlogPostBySlugInputs, env \in Envs :
        getBlogPostBySlugProcedure(raw, env)

\* --------------------------------------------------------------------- init
Init ==
    /\ pageContent = {}
    /\ projects = {}
    /\ blogPosts = {}
    /\ nextId = [page_content |-> 1, projects |-> 1, blog_posts |-> 1]
    /\ now = 0
    /\ calls = 0
    /\ response = Resp("none", <<>>, "none", <<>>)
    /\ inflight = [c \in Clients |-> Idle]
    /\ adminUsers = SeededAdmins
    /\ request = NoRequest

\* Sequential upserts of page content.
NextPage == UpdatePageContent \/ Tick

SpecPage == Init /\ [][NextPage]_vars

\* Sequential mutations of the projects table, at most MaxCalls of them.
NextProject ==
    \/ CreateProject
    \/ UpdateProject
    \/ DeleteProject
    \/ Tick

SpecProject == Init /\ [][NextProject]_vars

\* Sequential mutations of the blog_posts table, at most MaxCalls of them.
NextBlog ==
    \/ CreateBlogPost
    \/ UpdateBlogPost
    \/ DeleteBlogPost
    \/ Tick

SpecBlog == Init /\ [][NextBlog]_vars

\* Overlapping mutations of the blog_posts table: createBlogPost is one
\* statement, updateBlogPost and deleteBlogPost run statement by statement.
\* The clock stands still in these behaviours: what the overlapping calls
\* do to one another does not depend on a timestamp.
NextBlogConc ==
    \/ CreateBlogPost
    \/ UpdateBlogPostStep
    \/ DeleteBlogPostStep

SpecBlogConc == Init /\ [][NextBlogConc]_vars

\* Blog list calls overlapping createBlogPost and deleteBlogPost calls, each
\* of which falls as a whole before, between or after the two statements of
\* a list call.  (An updateBlogPost that publishes or withdraws a post does
\* to the published list what a create or a delete does.)
NextBlogList ==
    \/ CreateBlogPost
    \/ DeleteBlogPost
    \/ ListBlogPostsStep

SpecBlogList == Init /\ [][NextBlogList]_vars

\* Sequential mutations of both tables, at most MaxCalls in all.
NextCrud ==
    \/ CreateProject
    \/ UpdateProject
    \/ DeleteProject
    \/ CreateBlogPost
    \/ UpdateBlogPost
    \/ DeleteBlogPost
    \/ Tick

SpecCrud == Init /\ [][NextCrud]_vars

\* The tables of at most MaxRows rows, with ids 1..MaxRows, over the row set
\* rowsOf(id).
TablesOver(rowsOf(_)) ==
    LET Choice(id) == {{}} \cup {{r} : r \in rowsOf(id)}
        RECURSIVE Upto(_)
        Upto(n) == IF n = 0 THEN {{}}
                   ELSE {t \cup c : t \in Upto(n - 1), c \in Choice(n)}
    IN  Upto(MaxRows)

\* The project rows a table can hold under id: what createProject and
\* updateProject can have written, as far as the list queries read it.
ProjectRowsOf(id) ==
    [id : {id}, title : {"T1"}, description : {NULL}, image_url : {"I1"},
     order_index : {0, 1, 2}, is_active : BOOLEAN,
     created_at : {0}, updated_at : {0}]

\* The list queries applied to every projects table of at most MaxRows rows.
InitProjectRead ==
    /\ pageContent = {}
    /\ projects \in TablesOver(ProjectRowsOf)
    /\ blogPosts = {}
    /\ nextId = [page_content |-> 1, projects |-> MaxRows + 1, blog_posts |-> 1]
    /\ now = 0
    /\ calls = 0
    /\ response = Resp("none", <<>>, "none", <<>>)
    /\ inflight = [c \in Clients |-> Idle]
    /\ adminUsers = SeededAdmins
    /\ request = NoRequest

NextProjectRead == GetProjects \/ GetAllProjects

SpecProjectRead == InitProjectRead /\ [][NextProjectRead]_vars

\* The blog post rows a table can hold under id, as far as the read
\* operations read them: every combination of the published flag and a null
\* or set published_at, equal and different dates, and a stored post that
\* uses the slug of a default post.
BlogRowsOf(id) ==
    [id : {id}, title : {"T1"},
     slug : IF id = 1 THEN {"s1", "getting-started-with-modern-web-development"}
            ELSE {<<"s1", "s2", "s3", "s4">>[id]},
     excerpt : {NULL}, content : {"C1"}, image_url : {NULL},
     is_published : BOOLEAN, published_at : {<<>>, <<0>>, <<1>>},
     created_at : {0, 1}, updated_at : {1}]

\* The read operations applied to every blog_posts table of at most MaxRows
\* rows.
InitBlogRead ==
    /\ pageContent = {}
    /\ projects = {}
    /\ blogPosts \in TablesOver(BlogRowsOf)
    /\ nextId = [page_content |-> 1, projects |-> 1, blog_posts |-> MaxRows + 1]
    /\ now = 1
    /\ calls = 0
    /\ response = Resp("none", <<>>, "none", <<>>)
    /\ inflight = [c \in Clients |-> Idle]
    /\ adminUsers = SeededAdmins
    /\ request = NoRequest

NextBlogRead == GetBlogPosts \/ GetAllBlogPosts \/ GetBlogPostBySlug

SpecBlogRead == InitBlogRead /\ [][NextBlogRead]_vars

\* Deletes and reads applied to every projects table and every blog_posts
\* table of at most MaxRows rows (the other table empty).
InitDelete ==
    /\ pageContent = {}
    /\ \/ projects \in TablesOver(ProjectRowsOf) /\ blogPosts = {}
       \/ projects = {} /\ blogPosts \in TablesOver(BlogRowsOf)
    /\ nextId = [page_content |-> 1, projects |-> MaxRows + 1, blog_posts |-> MaxRows + 1]
    /\ now = 1
    /\ calls = 0
    /\ response = Resp("none", <<>>, "none", <<>>)
    /\ inflight = [c \in Clients |-> Idle]
    /\ adminUsers = SeededAdmins
    /\ request = NoRequest

NextDelete ==
    \/ DeleteProject
    \/ DeleteBlogPost
    \/ GetProjects
    \/ GetAllProjects
    \/ GetBlogPosts
    \/ GetAllBlogPosts
    \/ GetBlogPostBySlug

SpecDelete == InitDelete /\ [][NextDelete]_vars

\* The admin rows a table can hold under id: usernames are unique, the
\* password is hashed with any salt.
AdminRowsOf(id) ==
    [id : {id}, username : {<<"admin", "admin1", "admin2", "admin3">>[id]},
     password_hash : {PasswordHash(password, salt) :
                          password \in {"password", "password1"}, salt \in Salts},
     created_at : {0}, updated_at : {0}]

\* adminLogin applied to every admin_users table of at most MaxRows rows.
InitLogin ==
    /\ pageContent = {}
    /\ projects = {}
    /\ blogPosts = {}
    /\ nextId = [page_content |-> 1, projects |-> 1, blog_posts |-> 1]
    /\ now = 0
    /\ calls = 0
    /\ response = Resp("none", <<>>, "none", <<>>)
    /\ inflight = [c \in Clients |-> Idle]
    /\ adminUsers \in TablesOver(AdminRowsOf)
    /\ request = NoRequest

NextLogin == AdminLogin \/ Tick

SpecLogin == InitLogin /\ [][NextLogin]_vars

\* The page rows a table can hold under id: page_type is unique.
PageRowsOf(id) ==
    [id : {id}, page_type : {<<"home", "about", "home", "about">>[id]},
     hero_title : {"H1", "H2"}, hero_text : {"X1"},
     hero_image_url : {NULL, "U1"}, content_sections : {"S1"},
     created_at : {0}, updated_at : {0, 1}]

\* getPageContent applied to every page_content table of at most MaxRows rows.
InitPageRead ==
    /\ pageContent \in TablesOver(PageRowsOf)
    /\ projects = {}
    /\ blogPosts = {}
    /\ nextId = [page_content |-> MaxRows + 1, projects |-> 1, blog_posts |-> 1]
    /\ now = 1
    /\ calls = 0
    /\ response = Resp("none", <<>>, "none", <<>>)
    /\ inflight = [c \in Clients |-> Idle]
    /\ adminUsers = SeededAdmins
    /\ request = NoRequest

NextPageRead == GetPageContent

SpecPageRead == InitPageRead /\ [][NextPageRead]_vars

\* The admin_users tables a start can find: none, one or two admins, whose
\* passwords were hashed earlier.
StartupAdminTables ==
    {t \in TablesOver(AdminRowsOf) :
        \A u \in t : u.password_hash = PasswordHash("password1", "salt2")}

\* The server process: start() seeds the database and then serves the
\* router; the process can be restarted at any time.  The database it is
\* started on holds any admin_users table.
InitStartup ==
    /\ pageContent = {}
    /\ projects = {}
    /\ blogPosts = {}
    /\ nextId = [page_content |-> 1, projects |-> 1, blog_posts |-> 1]
    /\ now = 0
    /\ calls = 0
    /\ response = Resp("none", <<>>, "none", <<>>)
    /\ inflight = [c \in Clients |-> Idle]
    /\ adminUsers \in StartupAdminTables
    /\ request = NoRequest

\* The router is served once seedDatabase has run (until MaxCalls - 1
\* mutating calls were made).
Serving == response.op # "none" /\ calls < MaxCalls - 1

NextStartup ==
    \/ SeedDatabase
    \/ Serving /\ AdminLoginProcedure
    \/ Serving /\ GetPageContent
    \/ Serving /\ UpdatePageContentProcedure
    \/ Serving /\ GetProjects
    \/ Serving /\ GetAllProjects
    \/ Serving /\ CreateProjectProcedure
    \/ Serving /\ UpdateProjectProcedure
    \/ Serving /\ DeleteProject
    \/ Serving /\ GetBlogPostsProcedure
    \/ Serving /\ GetAllBlogPostsProcedure
    \/ Serving /\ GetBlogPostBySlugProcedure
    \/ Serving /\ CreateBlogPostProcedure
    \/ Serving /\ UpdateBlogPostProcedure
    \/ Serving /\ DeleteBlogPost

SpecStartup == InitStartup /\ [][NextStartup]_vars

\* The procedures called over the wire, from the state after startup.
NextApi ==
    \/ AdminLoginProcedure
    \/ UpdatePageContentProcedure
    \/ CreateProjectProcedure
    \/ UpdateProjectProcedure
    \/ CreateBlogPostProcedure
    \/ UpdateBlogPostProcedure
    \/ GetBlogPostsProcedure
    \/ GetAllBlogPostsProcedure
    \/ GetBlogPostBySlugProcedure
    \/ Tick

SpecApi == Init /\ [][NextApi]_vars

\* The router called by a client that never calls adminLogin, and so holds
\* no token.
NextAnonymous ==
    \/ UpdatePageContentProcedure
    \/ CreateProjectProcedure
    \/ UpdateProjectProcedure
    \/ DeleteProject
    \/ CreateBlogPostProcedure
    \/ UpdateBlogPostProcedure
    \/ DeleteBlogPost
    \/ GetAllBlogPostsProcedure

SpecAnonymous == Init /\ [][NextAnonymous]_vars

\* updatePageContent calls of several clients, interleaved at their awaits.
NextPageConc == UpdatePageContentStep \/ Tick

SpecPageConc == Init /\ [][NextPageConc]_vars

\* ---------------------------------------------------------- claims: pages
PageRowOf(rows, pt) == CHOOSE r \in SelectPageByType(rows, pt) : TRUE

\* Every page type holds at most one row.
AtMostOnePerPageType ==
    \A pt \in PageTypes : Cardinality(SelectPageByType(pageContent, pt)) <= 1

\* A completed updatePageContent call returned the one row of its page type.
UpsertLeftOneRow ==
    response.op = "updatePageContent" =>
        /\ response.outcome = "ok"
        /\ Len(response.ret) = 1
        /\ SelectPageByType(pageContent, response.ret[1].page_type) = {response.ret[1]}

\* A page type that has a row keeps exactly one row.
PageRowStays ==
    \A pt \in PageTypes :
        PageExists(pageContent, pt) => Cardinality(SelectPageByType(pageContent', pt)) = 1

\* C1: after any sequence of completed, non-overlapping updatePageContent
\* calls the store holds at most one row per page type, and exactly one row
\* for every page type that was upserted at least once (the call leaves one
\* row of its page type, and no later step removes or doubles it).
C1_OneRowPerPageType ==
    /\ [](AtMostOnePerPageType /\ UpsertLeftOneRow)
    /\ [][PageRowStays]_vars

\* Both page types were upserted, one of them at least twice.
C1_Witness ==
    /\ response.op = "updatePageContent"
    /\ \A pt \in PageTypes : PageExists(pageContent, pt)
    /\ \E r \in pageContent : r.updated_at > r.created_at

\* What an upsert of an existing page type does to the table, with the
\* relation `later` that updated_at's new value bears to the old one.
PageUpdateEffect(input, later(_, _)) ==
    LET old == PageRowOf(pageContent, input.page_type)
        new == PageRowOf(pageContent', input.page_type)
    IN  /\ Cardinality(SelectPageByType(pageContent', input.page_type)) = 1
        /\ new.id = old.id
        /\ new.created_at = old.created_at
        /\ new.page_type = old.page_type
        /\ new.hero_title = input.hero_title
        /\ new.hero_text = input.hero_text
        /\ new.hero_image_url = input.hero_image_url
        /\ new.content_sections = input.content_sections
        /\ later(new.updated_at, old.updated_at)
        /\ response'.ret = <<new>>
        /\ \A r \in pageContent : r.page_type # input.page_type => r \in pageContent'
        /\ \A r \in pageContent' : r.page_type # input.page_type => r \in pageContent

StrictlyLater(new, old) == new > old
ClockReading(new, old) == new = now /\ new >= old /\ (now > old => new > old)

\* The step is the call response' records, an upsert of an existing page type.
UpsertOfExisting ==
    /\ response'.op = "updatePageContent"
    /\ updatePageContent(response'.input)
    /\ PageExists(pageContent, response'.input.page_type)

\* C2 as stated: an upsert of an existing page type sets updated_at to a
\* strictly later value (and keeps id, created_at and the other page's row).
C2_Original ==
    [][UpsertOfExisting => PageUpdateEffect(response'.input, StrictlyLater)]_vars

\* C2 amended: updatePageContent for a page type that already has a row keeps
\* that row's id and created_at, overwrites the four content fields with the
\* input, sets updated_at to the clock reading of the call (never earlier
\* than before, strictly later only if the clock advanced since the row was
\* last written), and leaves the other page type's row unchanged.
C2_UpdateExistingPage ==
    [][UpsertOfExisting => PageUpdateEffect(response'.input, ClockReading)]_vars

\* An existing row was overwritten with other content while the other page's
\* row was present.
C2_Witness ==
    /\ response.op = "updatePageContent"
    /\ response.outcome = "ok"
    /\ Cardinality(pageContent) = 2
    /\ response.ret[1].updated_at > response.ret[1].created_at
    /\ response.ret[1].hero_title = "H2"
    /\ response.ret[1].hero_image_url = NULL

\* ------------------------------------------------------- claims: blog slugs
\* No two rows of blog_posts have the same slug.
NoTwoPostsShareASlug ==
    \A r1, r2 \in blogPosts : r1 # r2 => r1.slug # r2.slug

\* C3: in every reachable state, after any sequence and any interleaving of
\* createBlogPost, updateBlogPost and deleteBlogPost calls (the latter two
\* suspended between their statements), no two blog post rows have the same
\* slug, and no two have the same id.
C3_SlugsStayUnique ==
    /\ NoTwoPostsShareASlug
    /\ \A r1, r2 \in blogPosts : r1 # r2 => r1.id # r2.id

\* An updateBlogPost call passed its own conflict check, another call then
\* took the slug, and the UPDATE was refused by the unique constraint.
C3_Witness ==
    /\ response.op = "updateBlogPost"
    /\ response.outcome = "unique_violation"
    /\ \E r1, r2 \in blogPosts :
           /\ r1.id = response.input.id
           /\ r2.id # r1.id
           /\ r2.slug = response.input.slug

\* A step that is the createBlogPost call recorded in response'.
CreateBlogPostCall ==
    /\ response'.op = "createBlogPost"
    /\ createBlogPost(response'.input)

\* C4: createBlogPost with a slug equal to the slug of an existing post fails
\* with a thrown error, inserts no row and leaves every existing post
\* unchanged; with a slug used by no existing post it inserts exactly one new
\* row (which carries that slug and is what the call returns), the existing
\* posts staying as they were.
C4_CreateDuplicateSlug ==
    [][CreateBlogPostCall =>
        IF \E r \in blogPosts : r.slug = response'.input.slug
        THEN /\ response'.outcome = "unique_violation"
             /\ response'.ret = <<>>
             /\ blogPosts' = blogPosts
        ELSE /\ response'.outcome = "ok"
             /\ blogPosts \subseteq blogPosts'
             /\ Cardinality(blogPosts' \ blogPosts) = 1
             /\ blogPosts' \ blogPosts = {response'.ret[1]}
             /\ response'.ret[1].slug = response'.input.slug]_vars

\* A createBlogPost call was refused for its slug while two posts exist.
C4_Witness ==
    /\ response.op = "createBlogPost"
    /\ response.outcome = "unique_violation"
    /\ \E r \in blogPosts : r.slug = response.input.slug
    /\ Cardinality(blogPosts) = 2
    /\ nextId.blog_posts = 4

\* A step that is the updateBlogPost call recorded in response'.
UpdateBlogPostCall ==
    /\ response'.op = "updateBlogPost"
    /\ updateBlogPost(response'.input)

\* C5: updateBlogPost on an existing post with a supplied slug throws a
\* duplicate-slug error and changes nothing when a different post already
\* has that slug, and succeeds, returning the post with that slug, when the
\* supplied slug equals the post's own current slug.
C5_UpdateSlugConflict ==
    [][(/\ UpdateBlogPostCall
        /\ BlogExists(blogPosts, response'.input.id)
        /\ "slug" \in DOMAIN response'.input) =>
        LET input == response'.input
            own == CHOOSE r \in blogPosts : r.id = input.id
        IN  /\ (\E r \in blogPosts : r.id # input.id /\ r.slug = input.slug) =>
                   /\ response'.outcome = "already_exists"
                   /\ blogPosts' = blogPosts
            /\ own.slug = input.slug =>
                   /\ response'.outcome = "ok"
                   /\ response'.ret[1].id = input.id
                   /\ response'.ret[1].slug = input.slug
                   /\ response'.ret[1] \in blogPosts']_vars

\* An update was refused because another post holds the supplied slug.
C5_Witness ==
    /\ response.op = "updateBlogPost"
    /\ response.outcome = "already_exists"
    /\ \E r1, r2 \in blogPosts :
           /\ r1.id = response.input.id
           /\ r1.slug # response.input.slug
           /\ r2.id # r1.id
           /\ r2.slug = response.input.slug

\* --------------------------------------------------- claims: partial update
\* A step that is the successful updateProject call recorded in response'.
UpdateProjectOk ==
    /\ response'.op = "updateProject"
    /\ response'.outcome = "ok"
    /\ updateProject(response'.input)

\* A step that is the successful updateBlogPost call recorded in response'.
UpdateBlogPostOk ==
    /\ response'.outcome = "ok"
    /\ UpdateBlogPostCall

\* The row with the input's id went from old to new = the returned row: every
\* field but updated_at is the supplied value when the input supplies the
\* field and the prior value otherwise; every other row is as it was.
PartialUpdateEffect(before, after) ==
    LET input == response'.input
        new == response'.ret[1]
    IN  \E old \in before :
            /\ old.id = input.id
            /\ new \in after
            /\ new.id = old.id
            /\ new.created_at = old.created_at
            /\ \A k \in DOMAIN old \ {"id", "created_at", "updated_at"} :
                   new[k] = IF k \in DOMAIN input THEN input[k] ELSE old[k]
            /\ after \ {new} = before \ {old}

\* C9: a successful updateProject or updateBlogPost changes, on the row with
\* the given id, only the fields supplied in the input (a supplied null sets
\* a nullable field to null) plus updated_at; id, created_at and every
\* unsupplied field keep their prior values, and no other row of the table
\* changes in any field, including updated_at (nor does the other table).
C9_PartialUpdateFrame ==
    /\ [][UpdateProjectOk =>
            PartialUpdateEffect(projects, projects') /\ blogPosts' = blogPosts]_vars
    /\ [][UpdateBlogPostOk =>
            PartialUpdateEffect(blogPosts, blogPosts') /\ projects' = projects]_vars

\* An updateBlogPost set the excerpt to null and the slug to a new value on
\* one of two posts, at a later clock reading than both posts were written.
C9_Witness ==
    /\ response.op = "updateBlogPost"
    /\ response.outcome = "ok"
    /\ DOMAIN response.input = {"id", "excerpt", "slug"}
    /\ response.input.excerpt = NULL
    /\ response.ret[1].excerpt = NULL
    /\ response.ret[1].title = "T1"
    /\ response.ret[1].updated_at > response.ret[1].created_at
    /\ \E r \in blogPosts : r.id # response.input.id /\ r.updated_at = 0

\* The updated row's updated_at, before and after the call.
UpdatedAtOf(rows, id) == (CHOOSE r \in rows : r.id = id).updated_at

Range(list) == {list[i] : i \in 1..Len(list)}

\* list holds exactly the rows of the set, each once.
ListsExactly(list, rows) ==
    /\ Range(list) = rows
    /\ Len(list) = Cardinality(rows)

\* list is sorted ascending by key.
SortedBy(list, key(_)) ==
    \A i, j \in 1..Len(list) : i < j => key(list[i]) <= key(list[j])

\* C8: for every state of the project store, getProjects returns exactly the
\* rows with is_active = true and getAllProjects returns exactly all rows (an
\* empty list when the store has none), each sorted ascending by order_index.
C8_ProjectLists ==
    /\ response.op = "getProjects" =>
           /\ ListsExactly(response.ret, {r \in projects : r.is_active})
           /\ SortedBy(response.ret, OrderIndexOf)
    /\ response.op = "getAllProjects" =>
           /\ ListsExactly(response.ret, projects)
           /\ SortedBy(response.ret, OrderIndexOf)

\* getProjects answered with projects although the store holds inactive
\* projects only.
C8_Witness ==
    /\ response.op = "getProjects"
    /\ Cardinality(projects) = 2
    /\ \A r \in projects : ~r.is_active
    /\ Len(response.ret) = 3
    /\ \A i \in 1..3 : response.ret[i] \notin projects

\* What C8 states holds of every call made in the test environment.
ProjectListsInTests ==
    (response.op \in {"getProjects", "getAllProjects"} /\ IsTestEnv(response.input.env))
        => C8_ProjectLists

\* C6: for every state of the blog post store, getBlogPosts returns exactly
\* the posts with is_published = true and published_at non-null (never a post
\* that is not in the store, never a post with is_published = true and
\* published_at = null), ordered by published_at descending: the data of a
\* response are stored public posts, each once, in descending order of
\* published_at, as many as the requested page holds, and all of them when
\* the first page has room for all.
C6_PublishedPosts ==
    response.op = "getBlogPosts" =>
        LET data == response.ret[1].data
            public == {r \in blogPosts : r.is_published /\ r.published_at # <<>>}
            offset == (response.input.page - 1) * response.input.limit
            rest == IF Cardinality(public) > offset
                    THEN Cardinality(public) - offset ELSE 0
        IN  /\ Range(data) \subseteq public
            /\ Cardinality(Range(data)) = Len(data)
            /\ \A i, j \in 1..Len(data) :
                   i < j => data[i].published_at[1] >= data[j].published_at[1]
            /\ Len(data) = IF rest < response.input.limit THEN rest
                           ELSE response.input.limit
            /\ \A r \in public : \A i \in 1..Len(data) :
                   (r \notin Range(data) /\ offset = 0) =>
                       r.published_at[1] <= data[i].published_at[1]

\* getBlogPosts answered with posts although the store holds only posts that
\* are not public, one of them published with no published_at.
C6_Witness ==
    /\ response.op = "getBlogPosts"
    /\ \E r \in blogPosts : r.is_published /\ r.published_at = <<>>
    /\ \A r \in blogPosts : ~IsPublic(r)
    /\ Len(response.ret[1].data) = 2
    /\ \A i \in 1..2 : response.ret[1].data[i] \notin blogPosts

\* What C6 states holds of every call made in the test environment.
PublishedPostsInTests ==
    (response.op = "getBlogPosts" /\ IsTestEnv(response.input.env))
        => C6_PublishedPosts

\* C7: getBlogPostBySlug(slug) returns the stored post with that slug if and
\* only if that post has is_published = true and published_at non-null; it
\* returns null when no post has the slug, when the post is unpublished (with
\* or without a published_at), and when the post is published with
\* published_at = null.
C7_BySlugPublicOnly ==
    response.op = "getBlogPostBySlug" =>
        LET stored == {r \in blogPosts : r.slug = response.input.slug}
        IN  IF \E r \in stored : r.is_published /\ r.published_at # <<>>
            THEN /\ Len(response.ret) = 1
                 /\ response.ret[1] \in stored
            ELSE response.ret = <<>>

\* getBlogPostBySlug answered with a post that is not the stored one, for the
\* slug of a stored post that is unpublished.
C7_Witness ==
    /\ response.op = "getBlogPostBySlug"
    /\ \E r \in blogPosts : r.slug = response.input.slug /\ ~r.is_published
    /\ Len(response.ret) = 1
    /\ response.ret[1] \notin blogPosts
    /\ response.ret[1].slug = response.input.slug

\* What C7 states holds of every call made in the test environment.
BySlugPublicOnlyInTests ==
    (response.op = "getBlogPostBySlug" /\ IsTestEnv(response.input.env))
        => C7_BySlugPublicOnly

\* ------------------------------------------------- claims: missing targets
\* The tables and the serials are as they were.
StoreUnchanged == UNCHANGED <<adminUsers, pageContent, projects, blogPosts, nextId>>

\* C11: updateProject and updateBlogPost called with an id that no row has
\* throw a "not found" error (they do not return a result object) and leave
\* the store unchanged.
C11_UpdateMissingThrows ==
    /\ [][(/\ response'.op = "updateProject"
           /\ updateProject(response'.input)
           /\ \A r \in projects : r.id # response'.input.id) =>
              /\ response'.outcome = "not_found"
              /\ response'.ret = <<>>
              /\ StoreUnchanged]_vars
    /\ [][(/\ UpdateBlogPostCall
           /\ \A r \in blogPosts : r.id # response'.input.id) =>
              /\ response'.outcome = "not_found"
              /\ response'.ret = <<>>
              /\ StoreUnchanged]_vars

\* An updateBlogPost named an id no post has while another post exists, and
\* threw.
C11_Witness ==
    /\ response.op = "updateBlogPost"
    /\ response.outcome = "not_found"
    /\ blogPosts # {}
    /\ \A r \in blogPosts : r.id # response.input.id

\* A step that is the deleteProject call recorded in response'.
DeleteProjectCall ==
    /\ response'.op = "deleteProject"
    /\ deleteProject(response'.input)

\* A step that is the deleteBlogPost call recorded in response'.
DeleteBlogPostCall ==
    /\ response'.op = "deleteBlogPost"
    /\ deleteBlogPost(response'.input)

\* C12: deleteProject and deleteBlogPost called with an id that no row has
\* return the result object {success: false, message: "... not found"}
\* without throwing, and leave the store unchanged.
C12_DeleteMissingReturnsFailure ==
    /\ [][(DeleteProjectCall /\ \A r \in projects : r.id # response'.input.id) =>
              /\ response'.outcome = "ok"
              /\ response'.ret = <<[success |-> FALSE, message |-> "Project not found"]>>
              /\ StoreUnchanged]_vars
    /\ [][(DeleteBlogPostCall /\ \A r \in blogPosts : r.id # response'.input.id) =>
              /\ response'.outcome = "ok"
              /\ response'.ret = <<[success |-> FALSE, message |-> "Blog post not found"]>>
              /\ StoreUnchanged]_vars

\* A deleteProject named an id no project has while another project exists,
\* and returned the failure result.
C12_Witness ==
    /\ response.op = "deleteProject"
    /\ response.outcome = "ok"
    /\ ~response.ret[1].success
    /\ projects # {}
    /\ \A r \in projects : r.id # response.input.id

\* ----------------------------------------------------------- claims: delete
\* The delete of an existing row: the success result, the row gone, every
\* other row and every other table as before.
DeleteEffect(before, after, message) ==
    /\ response'.outcome = "ok"
    /\ response'.ret = <<[success |-> TRUE, message |-> message]>>
    /\ after = {r \in before : r.id # response'.input.id}
    /\ after # before

\* The ids of the rows a read returned: of the list of getProjects and
\* getAllProjects, of the data of getBlogPosts and getAllBlogPosts, of the
\* post of getBlogPostBySlug.
ReturnedIds(resp) ==
    IF resp.op \in {"getProjects", "getAllProjects", "getBlogPostBySlug"}
    THEN {resp.ret[i].id : i \in 1..Len(resp.ret)}
    ELSE {resp.ret[1].data[i].id : i \in 1..Len(resp.ret[1].data)}

\* A read of the table, made in one of envs, that follows a successful delete
\* of id from that table returns no row with that id.
DeletedRowStaysAway(deleteOp, readOps, envs) ==
    (/\ response.op = deleteOp
     /\ response.ret[1].success
     /\ response'.op \in readOps
     /\ response'.input.env \in envs) =>
        response.input.id \notin ReturnedIds(response')

\* C13: deleteProject and deleteBlogPost called with the id of an existing
\* row return {success: true}, after which no read operation returns a row
\* with that id, and every other row of the table is still present and
\* unchanged.
C13_DeleteExisting ==
    /\ [][(DeleteProjectCall /\ \E r \in projects : r.id = response'.input.id) =>
              /\ DeleteEffect(projects, projects', "Project deleted successfully")
              /\ UNCHANGED <<pageContent, blogPosts, nextId>>]_vars
    /\ [][(DeleteBlogPostCall /\ \E r \in blogPosts : r.id = response'.input.id) =>
              /\ DeleteEffect(blogPosts, blogPosts', "Blog post deleted successfully")
              /\ UNCHANGED <<pageContent, projects, nextId>>]_vars
    /\ [][DeletedRowStaysAway("deleteProject", {"getProjects", "getAllProjects"},
                               Envs)]_vars
    /\ [][DeletedRowStaysAway("deleteBlogPost",
              {"getBlogPosts", "getAllBlogPosts", "getBlogPostBySlug"}, Envs)]_vars

\* Project 1 was deleted and is in no table, and the getProjects call that
\* followed lists a project with id 1.
C13_Witness ==
    /\ response.op = "getProjects"
    /\ calls = 1
    /\ nextId.projects = MaxRows + 1
    /\ Cardinality(projects) = MaxRows - 1
    /\ \A r \in projects : r.id # 1 /\ ~r.is_active
    /\ 1 \in ReturnedIds(response)

\* What C13 states of reads holds of every read made in the test environment.
C13_InTests ==
    /\ C13_DeleteExisting!1
    /\ C13_DeleteExisting!2
    /\ [][DeletedRowStaysAway("deleteProject", {"getProjects", "getAllProjects"},
                               {"test"})]_vars
    /\ [][DeletedRowStaysAway("deleteBlogPost",
              {"getBlogPosts", "getAllBlogPosts", "getBlogPostBySlug"}, {"test"})]_vars

\* ------------------------------------------------------- claims: pagination
\* The rows the list operation of resp selects: the public posts for
\* getBlogPosts, every post for getAllBlogPosts.
MatchingPosts(resp) ==
    IF resp.op = "getBlogPosts"
    THEN {r \in blogPosts : r.is_published /\ r.published_at # <<>>}
    ELSE blogPosts

\* n = ceil(total / limit), 0 when total is 0
IsCeilOf(n, total, limit) ==
    /\ n * limit >= total
    /\ n = 0 \/ (n - 1) * limit < total

\* C14: for every page >= 1, limit in 1..100 and store state, getBlogPosts
\* and getAllBlogPosts return pagination with total = number of rows
\* matching the operation's filter, totalPages = ceil(total / limit) (0 when
\* total is 0), hasNext = (page < totalPages) and hasPrev = (page > 1), and
\* echo the requested page and limit.
C14_PaginationNumbers ==
    response.op \in {"getBlogPosts", "getAllBlogPosts"} =>
        LET pagination == response.ret[1].pagination
        IN  /\ pagination.total = Cardinality(MatchingPosts(response))
            /\ IsCeilOf(pagination.totalPages, pagination.total, response.input.limit)
            /\ pagination.hasNext = (response.input.page < pagination.totalPages)
            /\ pagination.hasPrev = (response.input.page > 1)
            /\ pagination.page = response.input.page
            /\ pagination.limit = response.input.limit

\* getAllBlogPosts on an empty store reported three posts on two pages.
C14_Witness ==
    /\ response.op = "getAllBlogPosts"
    /\ blogPosts = {}
    /\ response.ret[1].pagination.total = 3
    /\ response.ret[1].pagination.totalPages = 2
    /\ response.ret[1].pagination.hasNext

\* What C14 states holds of every call made in the test environment.
PaginationNumbersInTests ==
    (response.op \in {"getBlogPosts", "getAllBlogPosts"} /\ IsTestEnv(response.input.env))
        => C14_PaginationNumbers

\* The date a list operation orders by, descending.
OrderDate(resp, r) ==
    IF resp.op = "getBlogPosts" THEN r.published_at[1] ELSE r.created_at

\* One response holds the items at positions (p-1)*limit+1 .. min(p*limit,
\* total) of an ordered matching list: matching posts, each once, in
\* descending order, none of them later in the order than a matching post
\* of later position, as many as the positions there are; and a page beyond
\* the last is empty with hasNext = false and hasPrev = (page > 1).
PageOfOrderedList(resp) ==
    LET data == resp.ret[1].data
        matching == MatchingPosts(resp)
        total == Cardinality(matching)
        page == resp.input.page
        limit == resp.input.limit
        offset == (page - 1) * limit
        rest == IF total > offset THEN total - offset ELSE 0
    IN  /\ Range(data) \subseteq matching
        /\ Cardinality(Range(data)) = Len(data)
        /\ \A i, j \in 1..Len(data) :
               i < j => OrderDate(resp, data[i]) >= OrderDate(resp, data[j])
        /\ Len(data) = IF rest < limit THEN rest ELSE limit
        /\ \A r \in Range(data) :
               Cardinality({q \in matching : OrderDate(resp, q) > OrderDate(resp, r)})
                   < offset + limit
        /\ \A r \in matching \ Range(data) : \A d \in Range(data) :
               OrderDate(resp, r) > OrderDate(resp, d) =>
                   Cardinality({q \in matching : OrderDate(resp, q) > OrderDate(resp, d)})
                       >= offset
        /\ offset >= total =>
               /\ data = <<>>
               /\ ~resp.ret[1].pagination.hasNext
               /\ resp.ret[1].pagination.hasPrev = (page > 1)

\* Two list calls in a row, of the same operation with the same limit, in
\* one of envs, for different pages.
TwoPagesInARow(envs) ==
    /\ response.op \in {"getBlogPosts", "getAllBlogPosts"}
    /\ response'.op = response.op
    /\ response'.input.limit = response.input.limit
    /\ response'.input.page # response.input.page
    /\ response.input.env \in envs
    /\ response'.input.env \in envs

\* The two pages share no post.
PagesShareNoPost ==
    Range(response.ret[1].data) \cap Range(response'.ret[1].data) = {}

\* C15: with no mutation in between, page p of getBlogPosts /
\* getAllBlogPosts with a given limit returns exactly the items at positions
\* (p-1)*limit+1 .. min(p*limit, total) of the ordered matching list: every
\* page before the last has exactly limit items, the pages 1..totalPages
\* together contain every matching post exactly once (two different pages
\* share no post), and any page beyond totalPages has empty data with
\* hasNext = false and hasPrev = (page > 1).
C15_PagesPartitionTheList ==
    /\ [](response.op \in {"getBlogPosts", "getAllBlogPosts"} =>
              PageOfOrderedList(response))
    /\ [][TwoPagesInARow(Envs) => PagesShareNoPost]_vars

\* Page 1 of getBlogPosts holds a post although the store has no public post.
C15_Witness ==
    /\ response.op = "getBlogPosts"
    /\ response.input.page = 1
    /\ blogPosts # {}
    /\ MatchingPosts(response) = {}
    /\ Len(response.ret[1].data) = response.input.limit

\* In the test environment every single response is a page of an ordered
\* matching list.
EachPageInTests ==
    (response.op \in {"getBlogPosts", "getAllBlogPosts"} /\ IsTestEnv(response.input.env))
        => PageOfOrderedList(response)

\* In the test environment two different pages share no post.
PagesShareNoPostInTests == [][TwoPagesInARow({"test"}) => PagesShareNoPost]_vars

\* In the test environment two different pages share no post when no two
\* matching posts have the same date.
PagesShareNoPostWithoutTies ==
    [][(/\ TwoPagesInARow({"test"})
        /\ \A r, q \in MatchingPosts(response) :
               r # q => OrderDate(response, r) # OrderDate(response, q))
          => PagesShareNoPost]_vars

\* ------------------------------------------------------------ claims: login
\* The admin users whose username is the input's and whose stored hash is a
\* hash of the input's password.
MatchingAdmins(input) ==
    {u \in adminUsers :
        /\ u.username = input.username
        /\ \E salt \in Salts : u.password_hash = PasswordHash(input.password, salt)}

\* C16: adminLogin with the username of an existing admin user and the
\* password matching its stored hash returns {success: true, token, message}
\* where the token decodes (base64 of JSON) to a payload holding that user's
\* id and username, an issued-at, and an expiry strictly greater than the
\* issued-at (issued-at + 24h).
C16_LoginSucceeds ==
    (response.op = "adminLogin" /\ MatchingAdmins(response.input) # {}) =>
        /\ response.outcome = "ok"
        /\ Len(response.ret) = 1
        /\ DOMAIN response.ret[1] = {"success", "token", "message"}
        /\ response.ret[1].success
        /\ response.ret[1].message = "Login successful"
        /\ LET payload == DecodeToken(response.ret[1].token)
           IN  /\ \E u \in MatchingAdmins(response.input) :
                      payload.userId = u.id /\ payload.username = u.username
               /\ payload.iat \in 0..now
               /\ payload.exp > payload.iat
               /\ payload.exp = payload.iat + 24 * 60 * 60 * 1000

\* The second of two admins, whose hash carries another salt than the
\* first's, logged in after the clock had advanced.
C16_Witness ==
    /\ response.op = "adminLogin"
    /\ Cardinality(adminUsers) = 2
    /\ \E u \in adminUsers :
           /\ u.id = 2
           /\ u.password_hash = PasswordHash(response.input.password, "salt2")
           /\ u.username = response.input.username
    /\ response.ret[1].success
    /\ DecodeToken(response.ret[1].token).iat = 1

\* C17: adminLogin with an unknown username, with a wrong password for an
\* existing username, or with empty strings returns (never throws) the same
\* result {success: false, message: "Invalid credentials"} with no token, so
\* the response for an unknown username is identical to the response for a
\* wrong password.
C17_LoginFailsAlike ==
    (response.op = "adminLogin" /\ MatchingAdmins(response.input) = {}) =>
        /\ response.outcome = "ok"
        /\ response.ret = <<[success |-> FALSE, message |-> "Invalid credentials"]>>

\* A login with an unknown username failed while two admins exist, one of
\* them with the password that was tried.
C17_Witness ==
    /\ response.op = "adminLogin"
    /\ response.input.username = "nobody"
    /\ Cardinality(adminUsers) = 2
    /\ \E u \in adminUsers, salt \in Salts :
           u.password_hash = PasswordHash(response.input.password, salt)
    /\ ~response.ret[1].success

\* ------------------------------------------------------- claims: validation
\* The violations the contract names: a required string that is empty, an
\* order_index that is negative or not an integer, a page below 1, a limit
\* below 1 or above 100.
RequiredStrings ==
    {"title", "slug", "content", "hero_title", "hero_text", "content_sections",
     "username", "password"}

ViolatesSchema(raw) ==
    \/ \E k \in RequiredStrings \cap DOMAIN raw : raw[k] = ""
    \/ /\ "order_index" \in DOMAIN raw
       /\ raw.order_index[1] % raw.order_index[2] # 0 \/ raw.order_index[1] < 0
    \/ "page" \in DOMAIN raw /\ raw.page[1] < raw.page[2]
    \/ /\ "limit" \in DOMAIN raw
       /\ raw.limit[1] < raw.limit[2] \/ raw.limit[1] > 100 * raw.limit[2]

\* The last call through the router was refused: the handler did not answer.
Refused ==
    /\ response.op = request.op
    /\ response.outcome = "BAD_REQUEST"
    /\ response.ret = <<>>

\* C18: any API call whose input violates the schema (an empty required
\* string, a negative or non-integer order_index, page < 1, limit < 1 or
\* > 100) is rejected before the handler runs, performs no persistence access
\* and leaves the store unchanged.
C18_InvalidInputRejected ==
    /\ [](ViolatesSchema(request.raw) => Refused)
    /\ [][ViolatesSchema(request'.raw) => StoreUnchanged]_vars

\* A createProject with a non-integer order_index was refused while a project
\* created by an earlier call is stored.
C18_Witness ==
    /\ request.op = "createProject"
    /\ request.raw.title = "T1"
    /\ request.raw.order_index = Number(1, 2)
    /\ response.outcome = "BAD_REQUEST"
    /\ projects # {}

\* A list request out of range: limit outside [1, 100] or page below 1.
ListRequest == request.op \in {"getBlogPosts", "getAllBlogPosts"}

OutOfRange(raw) ==
    \/ "page" \in DOMAIN raw /\ raw.page[1] < raw.page[2]
    \/ /\ "limit" \in DOMAIN raw
       /\ raw.limit[1] < raw.limit[2] \/ raw.limit[1] > 100 * raw.limit[2]

\* limit clamped to [1, 100] and page to at least 1 (omitted: 10 and 1)
ClampedLimit(raw) ==
    IF "limit" \notin DOMAIN raw THEN 10
    ELSE IF raw.limit[1] < raw.limit[2] THEN 1
    ELSE IF raw.limit[1] > 100 * raw.limit[2] THEN 100
    ELSE raw.limit[1] \div raw.limit[2]
ClampedPage(raw) ==
    IF "page" \notin DOMAIN raw THEN 1
    ELSE IF raw.page[1] < raw.page[2] THEN 1
    ELSE raw.page[1] \div raw.page[2]

\* The handler answered a call made with this page and limit.
ProceededWith(page, limit) ==
    /\ response.op = request.op
    /\ response.outcome = "ok"
    /\ response.input.page = page
    /\ response.input.limit = limit
    /\ response.ret[1].pagination.limit = limit

\* C19 as stated: a list request with limit outside [1, 100] or page below 1
\* is silently clamped by schema validation before it reaches getBlogPosts /
\* getAllBlogPosts, and the call then proceeds with the clamped values.
C19_Original ==
    (ListRequest /\ OutOfRange(request.raw)) =>
        ProceededWith(ClampedPage(request.raw), ClampedLimit(request.raw))

\* C19, amended: a list request with limit outside [1, 100] or page below 1
\* is rejected by schema validation before it reaches getBlogPosts /
\* getAllBlogPosts; nothing is clamped and the handler is not called.  A
\* request within the ranges proceeds with its own values, an omitted page
\* or limit being 1 or 10.
C19_OutOfRangeRejected ==
    ListRequest =>
        IF OutOfRange(request.raw)
        THEN Refused
        ELSE ProceededWith(ClampedPage(request.raw), ClampedLimit(request.raw))

\* getBlogPosts with limit 101 was refused while a published post is stored.
C19_Witness ==
    /\ request.op = "getBlogPosts"
    /\ request.raw = [limit |-> Number(101, 1)]
    /\ response.outcome = "BAD_REQUEST"
    /\ \E r \in blogPosts : IsPublic(r)

\* ------------------------------------------------------- claims: page reads
\* C20: getPageContent(pageType) returns the stored row whose page type is
\* pageType when one exists, and null when none exists (also when a row for
\* the other page type exists); it never returns generated default content
\* and never a row of the other page type.
C20_GetPageContent ==
    response.op = "getPageContent" =>
        LET stored == {r \in pageContent : r.page_type = response.input.page_type}
        IN  /\ response.outcome = "ok"
            /\ stored # {} => Len(response.ret) = 1 /\ response.ret[1] \in stored
            /\ stored = {} => response.ret = <<>>

\* getPageContent("about") answered with a row that is not stored, while the
\* store holds a row for "home" only.
C20_Witness ==
    /\ response.op = "getPageContent"
    /\ response.input.page_type = "about"
    /\ \E r \in pageContent : r.page_type = "home"
    /\ \A r \in pageContent : r.page_type # "about"
    /\ Len(response.ret) = 1
    /\ response.ret[1] \notin pageContent
    /\ response.ret[1].page_type = "about"

\* What C20 states holds of every call made in the test environment.
GetPageContentInTests ==
    (response.op = "getPageContent" /\ IsTestEnv(response.input.env))
        => C20_GetPageContent

\* ------------------------------------------------------ claims: admin list
\* C21: getAllBlogPosts returns posts regardless of is_published and
\* published_at (its total counts every post in the store, and on an empty
\* store data is empty with total 0), ordered by created_at descending.
C21_AllPosts ==
    response.op = "getAllBlogPosts" =>
        LET data == response.ret[1].data
            offset == (response.input.page - 1) * response.input.limit
            rest == IF Cardinality(blogPosts) > offset
                    THEN Cardinality(blogPosts) - offset ELSE 0
        IN  /\ Range(data) \subseteq blogPosts
            /\ Cardinality(Range(data)) = Len(data)
            /\ \A i, j \in 1..Len(data) : i < j => data[i].created_at >= data[j].created_at
            /\ Len(data) = IF rest < response.input.limit THEN rest
                           ELSE response.input.limit
            /\ response.ret[1].pagination.total = Cardinality(blogPosts)
            /\ blogPosts = {} => data = <<>>

\* getAllBlogPosts on an empty store answered with two posts and total 3.
C21_Witness ==
    /\ response.op = "getAllBlogPosts"
    /\ blogPosts = {}
    /\ Len(response.ret[1].data) = 2
    /\ response.ret[1].pagination.total = 3

\* What C21 states holds of every call made in the test environment; a post
\* that is not published is listed there.
AllPostsInTests ==
    (response.op = "getAllBlogPosts" /\ IsTestEnv(response.input.env)) => C21_AllPosts

UnpublishedListedInTests ==
    /\ response.op = "getAllBlogPosts"
    /\ IsTestEnv(response.input.env)
    /\ \E i \in 1..Len(response.ret[1].data) :
           /\ ~response.ret[1].data[i].is_published
           /\ response.ret[1].data[i].published_at = <<>>

\* -------------------------------------------------- claims: project create
CreateProjectCall ==
    /\ response'.op = "createProject"
    /\ createProject(response'.input)

\* C22: createProject with valid input adds exactly one row whose id differs
\* from the id of every existing project, whose title, description, image_url
\* and order_index equal the input and whose is_active is the input value or
\* true when omitted; it is accepted even when another project has the same
\* order_index, and it leaves all existing rows unchanged.
C22_CreateProject ==
    [][CreateProjectCall =>
        LET input == response'.input
            added == projects' \ projects
        IN  /\ response'.outcome = "ok"
            /\ projects \subseteq projects'
            /\ Cardinality(added) = 1
            /\ added = {response'.ret[1]}
            /\ \A row \in added :
                   /\ \A r \in projects : r.id # row.id
                   /\ row.title = input.title
                   /\ row.description = input.description
                   /\ row.image_url = input.image_url
                   /\ row.order_index = input.order_index
                   /\ row.is_active = IF "is_active" \in DOMAIN input
                                      THEN input.is_active ELSE TRUE]_vars

\* A project was created inactive, with the order_index of a project that
\* exists.
C22_Witness ==
    /\ response.op = "createProject"
    /\ response.outcome = "ok"
    /\ ~response.ret[1].is_active
    /\ \E r \in projects :
           r.id # response.ret[1].id /\ r.order_index = response.ret[1].order_index
    /\ "is_active" \in DOMAIN response.input
    /\ response.ret[1] \in projects

\* ---------------------------------------------------- claims: admin users
\* C23: no operation of the remote-procedure API (including adminLogin,
\* successful or failed) creates, modifies or deletes an admin user row;
\* admin users change only through startup seeding, which inserts the default
\* admin only when the admin_users table is empty.
C23_AdminUsersOnlySeeded ==
    [][IF response'.op = "seedDatabase"
       THEN IF adminUsers = {}
            THEN \E salt \in Salts : adminUsers' = {DefaultAdmin(salt, now)}
            ELSE adminUsers' = adminUsers
       ELSE adminUsers' = adminUsers]_vars

\* The default admin, seeded into an empty table, logged in after a restart
\* that found the admin in place, and is stored as it was seeded.
C23_Witness ==
    /\ request.op = "adminLogin"
    /\ response.op = "adminLogin"
    /\ response.outcome = "ok"
    /\ response.ret[1].success
    /\ \E salt \in Salts : adminUsers = {DefaultAdmin(salt, 0)}
    /\ pageContent # {}

\* ------------------------------------------------- claims: authentication
AdminOperations ==
    {"updatePageContent", "createProject", "updateProject", "deleteProject",
     "createBlogPost", "updateBlogPost", "deleteBlogPost", "getAllBlogPosts"}

\* C24: the mutating and admin operations (updatePageContent, createProject,
\* updateProject, deleteProject, createBlogPost, updateBlogPost,
\* deleteBlogPost, getAllBlogPosts) require admin authentication: a caller
\* that has not obtained a token from a successful adminLogin cannot have any
\* of them executed.  Here no caller ever logs in: no handler of these
\* operations answers and the store stays as it was after startup.
C24_AdminOperationsNeedLogin ==
    /\ response.op \in AdminOperations =>
           response.outcome \in {"BAD_REQUEST", "UNAUTHORIZED"}
    /\ pageContent = {} /\ projects = {} /\ blogPosts = {}

\* Without any login a blog post was created, then changed by updateBlogPost,
\* and is stored.
C24_Witness ==
    /\ request.op = "updateBlogPost"
    /\ response.op = "updateBlogPost"
    /\ response.outcome = "ok"
    /\ response.ret[1] \in blogPosts
    /\ response.ret[1].slug = "s2"

\* ------------------------------------------- claims: overlapping page calls
\* C25: updatePageContent has upsert semantics, not insert-or-fail: with
\* schema-valid input it always completes by returning the resulting row and
\* never fails because a row for that page type exists, including when two
\* calls for the same, initially absent, page type overlap so that both
\* existence checks run before either write.
C25_UpsertNeverFails ==
    response.op = "updatePageContent" =>
        /\ response.outcome = "ok"
        /\ Len(response.ret) = 1
        /\ response.ret[1].page_type = response.input.page_type

\* A call failed on the unique constraint: the row stored for its page type
\* is the one an overlapping call inserted, with the other hero title.
C25_Witness ==
    /\ response.op = "updatePageContent"
    /\ response.outcome = "unique_violation"
    /\ \E r \in pageContent :
           /\ r.page_type = response.input.page_type
           /\ r.hero_title # response.input.hero_title

\* The write of a call that found no row for its page type, made when an
\* overlapping call has inserted one since.
LateInsert(c) ==
    /\ inflight[c].op = "updatePageContent"
    /\ inflight[c].pc = "insert"
    /\ inflight'[c] = Idle
    /\ PageExists(pageContent, inflight[c].input.page_type)

\* C27 as stated: two overlapping updatePageContent calls for the same page
\* type, both running the existence check before either performs its write,
\* can leave two page_content rows with that page type (a reachable state
\* with a duplicate row): the second write adds a second row.
C27_Original ==
    [][\A c \in Clients :
           LateInsert(c) =>
               Cardinality(SelectPageByType(pageContent', inflight[c].input.page_type)) = 2]_vars

\* C27, amended: two overlapping updatePageContent calls for the same page
\* type, both running the existence check before either performs its write,
\* cannot leave two page_content rows with that page type: the unique
\* constraint on page_type refuses the second insert, that call fails with
\* the constraint's error, and the table keeps the one row.
C27_SecondInsertRefused ==
    /\ [](\A pt \in PageTypes : Cardinality(SelectPageByType(pageContent, pt)) <= 1)
    /\ [][\A c \in Clients :
              LateInsert(c) =>
                  /\ pageContent' = pageContent
                  /\ response'.op = "updatePageContent"
                  /\ response'.outcome = "unique_violation"]_vars

\* Both calls ran their check on the empty table; the second insert was
\* refused and took the serial's second value.
C27_Witness ==
    /\ response.op = "updatePageContent"
    /\ response.outcome = "unique_violation"
    /\ calls = 2
    /\ Cardinality(pageContent) = 1
    /\ nextId.page_content = 3
    /\ \A c \in Clients : inflight[c] = Idle

\* ------------------------------------------------- claims: project order
\* Two rows of a list with the same order_index, the one with the larger id
\* first.
TieAgainstIds(list) ==
    \E i, j \in 1..Len(list) :
        /\ i < j
        /\ list[i].order_index = list[j].order_index
        /\ list[i].id > list[j].id

\* C26 as stated: in the results of getProjects and getAllProjects, projects
\* with equal order_index appear in insertion order, i.e. ascending id.
C26_Original ==
    response.op \in {"getProjects", "getAllProjects"} => ~TieAgainstIds(response.ret)

\* C26, amended: in the results of getProjects and getAllProjects, projects
\* are in ascending order of order_index and projects with equal order_index
\* appear next to each other, in an order the query leaves to the database:
\* not necessarily in insertion order.
C26_SortedByOrderIndexOnly ==
    response.op \in {"getProjects", "getAllProjects"} =>
        /\ \A i, j \in 1..Len(response.ret) :
               i < j => response.ret[i].order_index <= response.ret[j].order_index
        /\ \A i, j, k \in 1..Len(response.ret) :
               (i < k /\ k < j /\ response.ret[i].order_index = response.ret[j].order_index)
                   => response.ret[k].order_index = response.ret[i].order_index

\* getAllProjects listed two stored projects of equal order_index, the later
\* inserted one first.
C26_Witness ==
    /\ response.op = "getAllProjects"
    /\ Range(response.ret) = projects
    /\ Len(response.ret) = 2
    /\ response.ret[1].id = 2 /\ response.ret[2].id = 1
    /\ response.ret[1].order_index = response.ret[2].order_index

\* ------------------------------------------ claims: overlapping blog calls
\* C28: under any interleaving with deleteBlogPost on the same id, every
\* updateBlogPost call either throws (NotFound or duplicate slug) or returns
\* a blog post row whose id is the requested id; it never completes normally
\* without a row (as updateProject, which throws when its UPDATE matched no
\* row).
C28_UpdateThrowsOrReturnsRow ==
    response.op = "updateBlogPost" =>
        \/ response.outcome \in {"not_found", "already_exists", "unique_violation"}
        \/ /\ response.outcome = "ok"
           /\ Len(response.ret) = 1
           /\ response.ret[1].id = response.input.id

\* An updateBlogPost call completed normally with no row: the post it had
\* found was deleted by an overlapping deleteBlogPost before its UPDATE.
C28_Witness ==
    /\ response.op = "updateBlogPost"
    /\ response.outcome = "ok"
    /\ response.ret = <<>>
    /\ \A r \in blogPosts : r.id # response.input.id
    /\ nextId.blog_posts > response.input.id

\* The DELETE of a deleteBlogPost call, made when the post it found has been
\* deleted by an overlapping call since.
LateDelete(c) ==
    /\ inflight[c].op = "deleteBlogPost"
    /\ inflight'[c] = Idle
    /\ \A r \in blogPosts : r.id # inflight[c].input.id

\* C29: for each row, among any number of overlapping deleteProject (or
\* deleteBlogPost) calls targeting its id, exactly one returns
\* {success: true}; every other call returns {success: false} with the
\* not-found message.  Ids are never reused, so a call that completes when
\* the row is gone is one of the others.
C29_OneDeleteSucceeds ==
    [][\A c \in Clients :
           LateDelete(c) =>
               /\ response'.op = "deleteBlogPost"
               /\ ~response'.ret[1].success
               /\ response'.ret[1].message = "Blog post not found"]_vars

\* One deleteBlogPost call has returned success for a post while an
\* overlapping call for the same id, which found the post, is still to
\* run its DELETE.
C29_Witness ==
    /\ response.op = "deleteBlogPost"
    /\ response.ret[1].success
    /\ blogPosts = {}
    /\ \E c \in Clients :
           /\ inflight[c].op = "deleteBlogPost"
           /\ inflight[c].input.id = response.input.id

\* ---- claims: blog list calls overlapping mutations ----

\* min(limit, max(0, total - (page - 1) * limit))
ExpectedLength(p) ==
    LET rest == p.total - (p.page - 1) * p.limit
        left == IF rest > 0 THEN rest ELSE 0
    IN  IF p.limit < left THEN p.limit ELSE left

\* C30: every response of getBlogPosts and getAllBlogPosts is internally
\* consistent, data.length = min(limit, max(0, total - (page-1)*limit)) and
\* hence data.length <= total, also when a createBlogPost, updateBlogPost or
\* deleteBlogPost call overlaps the list call.
C30_ListConsistent ==
    response.op \in {"getBlogPosts", "getAllBlogPosts"} =>
        LET r == response.ret[1]
        IN  /\ Len(r.data) = ExpectedLength(r.pagination)
            /\ Len(r.data) <= r.pagination.total

\* A list call returned a row together with a total of 0: the row was
\* deleted between the page query and the count query.
C30_Witness ==
    /\ response.op \in {"getBlogPosts", "getAllBlogPosts"}
    /\ Len(response.ret[1].data) = 1
    /\ response.ret[1].pagination.total = 0
    /\ blogPosts = {}
====
